---- MODULE Spec2Model ----
(***************************************************************************)
(* The event registry of lume/eventful: the per-instance map from event    *)
(* name to the ordered collection of [callback, context] tuples, and the   *)
(* operations on, off and emit.  The repository holds two registries: the  *)
(* Set-based one of src/src/Eventful.ts:617-710 and the array-based one of *)
(* the compiled build (src/dist/Eventful.js:12-68, also                    *)
(* src/src/Eventful.ts:45-149).  The variable impl says which one runs.    *)
(*                                                                         *)
(* JavaScript is single threaded.  stack holds the emit calls in progress;  *)
(* in every state the code that runs is the caller's: top-level code when  *)
(* stack is empty, else the listener that the emit call on top of the      *)
(* stack has invoked last.  That code calls on, off and emit, or returns.  *)
(***************************************************************************)
EXTENDS Integers, Sequences, FiniteSets, TLC

\* ---------------------------------------------------------------- bounds
\* Total number of successful on() calls in a behaviour (tuple ids 1..MaxOn).
MaxOn == 3

\* Emit calls that a behaviour counts for one subscribed pair.
MaxDue == 3

\* Levels of subclassing below the class that Eventful(Base) returns, or
\* below Base.
MaxSub == 2

\* Writes to the decorated property in a behaviour.
MaxWrites == 3

\* The most callbacks of their own that the callers defer in one run.
MaxDefer == 1

\* The most assignments to one instance that the original setter refuses.
MaxThrows == 1

\* The most emit calls that are in progress at once (an emit call, the emit
\* call that one of its listeners makes, and so on).
MaxDepth == 2

\* ---------------------------------------------------------------- values
UNDEFINED == "undefined"
Impls == {"Set", "Array"}
Instances == {"o1", "o2"}
Names == {"a", "b"}
Cbs == {"f", "g"}
NotFns == {UNDEFINED}
Ctxs == {UNDEFINED, "ctxA"}
Datas == {"p"}

\* impl and scope are fixed by Init: which registry runs, and which calls the
\* callers (top-level code and listeners) make.
\* eventMap[o] is the #eventMap of instance o: null, or a map from event names
\* to the addresses of their collections.  The collections are objects of the
\* JavaScript heap: heap[r] is the array (or the Set, in insertion order) at
\* address r, and a new collection takes the next address.  A tuple
\* [callback, context] is an object too: id is its identity, and nextId the
\* identity of the next tuple that on creates.
\* last describes, for the properties, the call that top-level code made last
\* and that has returned: its arguments, what it threw, the registry before
\* it and, for emit, the entries at its start and the invocations it made.
VARIABLES impl, scope, eventMap, heap, nextId, stack, last

\* count is the callers' bookkeeping (the counters that the listeners of the
\* tests increment): for every (event name, callback, context), subs is the
\* number of on calls for it less the off calls that followed one, due the
\* emit calls of its name made while subs was positive (once per subscription)
\* and calls the invocations of the callback with that context by emit calls
\* of that name.
VARIABLES count

\* klass is the class of the instances (fixed by Init) and checked the last
\* `value instanceof Eventful` that the callers evaluated.
VARIABLES klass, checked

\* The property foo that @emits(eventName) decorates.  prop is the property
\* as the class declares it, what the decorator did to it and the variable
\* initialValueIsSet of the decorator's closure; field[o] holds the values
\* stored in instance o (slot is o[vName], back the storage of the original
\* property or accessor); queue is the microtask queue (the callbacks given to
\* Promise.resolve().then, oldest first); sync says that synchronous top-level
\* code is running (microtasks run when it has ended).  fired is bookkeeping
\* for the properties: per instance, the writes to the decorated property and
\* the emit calls that deferred steps made.
VARIABLES prop, field, queue, sync, fired

vars ==
    <<impl, scope, eventMap, heap, nextId, stack, last, count, klass, checked,
      prop, field, queue, sync, fired>>

\* ---------------------------------------------------------------- objects
\* The property keys that matter here: the symbol isEventful and the names of
\* the three methods.
Marker == "isEventful"
Methods == {"on", "off", "emit"}

\* An instance check that looks for the methods (duck typing).
HasMethods(value) ==
    IF value.kind # "object" THEN FALSE
    ELSE \A key \in Methods :
             key \in value.own \/ \E k \in 1..Len(value.protos) : key \in value.protos[k]

\* A value is falsy (null, undefined, 0) or an object: own are the keys of
\* its own properties and protos the keys of the objects of its prototype
\* chain (all of these properties hold truthy values).
Falsy == {[kind |-> v, own |-> {}, protos |-> <<>>] : v \in {"null", UNDEFINED, "0"}}

\* value[key], as a truth value: own property first, then the prototypes.
Get(value, key) ==
    key \in value.own \/ \E k \in 1..Len(value.protos) : key \in value.protos[k]

\* Eventful[Symbol.hasInstance](value), which `value instanceof Eventful`
\* calls: if (!value) return false; if (value[isEventful]) return true;
\* return false
HasInstance(value) ==
    IF value.kind # "object" THEN FALSE
    ELSE IF Get(value, Marker) THEN TRUE
    ELSE FALSE

\* A class: Base (Object or Array), whether Eventful(Base) is in its chain of
\* superclasses, the levels of `class X extends ...` below that, and
\* whether the class itself declares methods named on, off and emit.
Classes ==
    [base : {"Object", "Array"}, mixin : BOOLEAN, depth : 0..MaxSub, duck : BOOLEAN]

\* const MyClass = Eventful()
MyClass == [base |-> "Object", mixin |-> TRUE, depth |-> 0, duck |-> FALSE]

\* The prototype of the class that Eventful(Base) returns holds the three
\* methods; the compiled build also puts the marker there
\* (Eventful.prototype[isEventful] = isEventful), the source does not.
MixinPrototype == Methods \cup (IF impl = "Array" THEN {Marker} ELSE {})

\* The prototypes from class.prototype up to Object.prototype.
PrototypeChain(class) ==
    (IF class.depth > 0
     THEN <<IF class.duck THEN Methods ELSE {}>> \o [k \in 1..(class.depth - 1) |-> {}]
     ELSE <<>>)
    \o (IF class.mixin THEN <<MixinPrototype>> ELSE <<>>)
    \o (IF class.base = "Array" THEN <<{}, {}>> ELSE <<{}>>)

\* new class(): the constructor of the class that Eventful(Base) returns sets
\* the marker as a field of the instance ([isEventful] = true).
New(class) ==
    [kind |-> "object", own |-> IF class.mixin THEN {Marker} ELSE {},
     protos |-> PrototypeChain(class)]

\* class.prototype
Prototype(class) ==
    [kind |-> "object", own |-> PrototypeChain(class)[1],
     protos |-> Tail(PrototypeChain(class))]

\* { on() {}, off() {}, emit() {} }
Literal == [kind |-> "object", own |-> Methods, protos |-> <<{}>>]

NoCheck == [what |-> "none", value |-> [kind |-> UNDEFINED, own |-> {}, protos |-> <<>>],
            result |-> FALSE]

\* value instanceof Eventful, evaluated by the callers; what says how they
\* got the value.
InstanceOf(what, value) ==
    /\ checked' = [what |-> what, value |-> value, result |-> HasInstance(value)]
    /\ UNCHANGED <<impl, scope, eventMap, heap, nextId, stack, last, count, klass>>
    /\ UNCHANGED <<prop, field, queue, sync, fired>>

\* ---------------------------------------------------------------- decorated property
\* @emits(EventName) foo
EventName == "a"
PropName == "foo"

\* The value that the class declares for the property, and the values that
\* the callers assign.
Declared == "v0"
Vals == {"v1", "v2"}

\* How the class declares the property: a class field (the prototype has no
\* descriptor for it), a data property (writable or not), or an accessor with
\* a getter and a setter, a getter only or a setter only.
Decls == {"field", "data", "readonly", "accessor", "getter", "setter"}

\* The object the decorator receives: the prototype of the class, or (a
\* decorator called by hand) the instance o1.
Targets == {"prototype", "o1"}

NoProp ==
    [decl |-> "field", target |-> "prototype", state |-> "declared", bridge |-> FALSE,
     initialValueIsSet |-> FALSE]

\* Per instance: slot is this[vName], back is what the original property or
\* the original accessor stores; for the properties, set is the value that
\* the last assignment through the accessor that emits stored, got the value
\* that the last read since then returned, and threw counts the assignments
\* that the original setter refused.
NoField ==
    [o \in Instances |->
        [slot |-> UNDEFINED, back |-> UNDEFINED, set |-> "none", got |-> "none", threw |-> 0]]

\* The deferred work of the callers themselves (Promise.resolve().then(...)
\* with a callback of theirs) is counted under this name.
Other == "other"

Owners == Instances \cup {Other}

NoFired == [o \in Owners |-> [wrote |-> 0, ok |-> 0, other |-> 0]]

\* No decorator is applied and no microtask is ever queued.
Undecorated ==
    /\ prop = NoProp
    /\ field = NoField
    /\ queue = <<>>
    /\ sync = TRUE
    /\ fired = NoFired

\* A decorator that replaces the property before it checks the class.
DecorateLate(p) ==
    LET target == IF p.target = "prototype" THEN Prototype(klass) ELSE New(klass)
        useless == p.decl \in {"getter", "readonly"}
    IN IF useless THEN [p EXCEPT !.state = "warned"]
       ELSE [p EXCEPT !.state = IF HasInstance(target) THEN "installed" ELSE "TypeError",
                      !.bridge = TRUE]

\* _emits(prototype, propName, descriptor, eventName): it throws a TypeError
\* unless prototype instanceof Eventful; it warns and leaves the property
\* alone for an accessor without setter and for a data property that is not
\* writable; else it puts the accessor that emits in the property's place
\* (Object.defineProperty, or the descriptor it returns).
DecorateResult(p) ==
    LET target == IF p.target = "prototype" THEN Prototype(klass) ELSE New(klass)
        useless == p.decl \in {"getter", "readonly"}
    IN IF ~HasInstance(target) THEN [p EXCEPT !.state = "TypeError"]
       ELSE IF useless THEN [p EXCEPT !.state = "warned"]
       ELSE [p EXCEPT !.state = "installed", !.bridge = TRUE]

\* The class definition applies the decorator, once, before any instance
\* is used.
Decorate ==
    /\ sync
    /\ stack = <<>>
    /\ prop.state = "declared"
    /\ prop' = DecorateResult(prop)
    /\ UNCHANGED <<impl, scope, eventMap, heap, nextId, stack, last, count, klass, checked>>
    /\ UNCHANGED <<field, queue, sync, fired>>

\* The accessor that emits is what o.foo = ... reaches: it sits on the
\* prototype, or on the instance that the decorator received.
Bridged(o) == prop.bridge /\ (prop.target = "prototype" \/ prop.target = o)

\* A setter that schedules nothing while an emission for the instance is
\* pending.
ScheduleOnce(q, o) ==
    IF \E k \in 1..Len(q) : q[k].self = o THEN q
    ELSE Append(q, [self |-> o, w |-> fired["o1"].wrote + fired["o2"].wrote + fired[Other].wrote + 1])

\* The callbacks deferred so far, in this run of the program.
Scheduled == fired["o1"].wrote + fired["o2"].wrote + fired[Other].wrote

\* A microtask queue that runs the callback deferred last first.
SchedulePrepend(q, o) == <<[self |-> o, w |-> Scheduled + 1]>> \o q

\* Promise.resolve().then(emitEvent.bind(this)): the callback goes to the end
\* of the microtask queue; w says the how-manieth deferred callback it is.
Schedule(q, o) == Append(q, [self |-> o, w |-> Scheduled + 1])

\* An emission whose payload is the value of the property.
EmitEventValue(o) ==
    <<EventName, IF prop.decl \in {"accessor", "setter"} THEN field[o].back ELSE field[o].slot>>

\* function emitEvent() { this.emit(eventName, propName) }: the arguments of
\* the emit call.
EmitEvent(o) == <<EventName, PropName>>

\* A setter that stores the first value assigned and only schedules the
\* emission for the later ones.
WriteKeepsFirst(o, newValue) ==
    /\ sync \/ stack # <<>>
    /\ prop.state # "declared"
    /\ IF Bridged(o)
       THEN /\ fired[o].wrote + fired[IF o = "o1" THEN "o2" ELSE "o1"].wrote < MaxWrites
            /\ LET kept == IF prop.decl \in {"accessor", "setter"}
                           THEN field[o].back ELSE field[o].slot
                   stored == IF fired[o].wrote = 0 THEN newValue ELSE kept
               IN IF prop.decl \in {"accessor", "setter"}
                  THEN /\ field' = [field EXCEPT ![o].back = stored, ![o].set = newValue,
                                                 ![o].got = "none"]
                       /\ UNCHANGED prop
                  ELSE /\ field' = [field EXCEPT ![o].slot = stored, ![o].set = newValue,
                                                 ![o].got = "none"]
                       /\ prop' = [prop EXCEPT !.initialValueIsSet = TRUE]
            /\ queue' = Schedule(queue, o)
            /\ fired' = [fired EXCEPT ![o].wrote = @ + 1]
       ELSE /\ field' = IF prop.decl \in {"getter", "readonly"} THEN field
                        ELSE [field EXCEPT ![o].back = newValue]
            /\ UNCHANGED <<prop, queue, fired>>
    /\ UNCHANGED <<impl, scope, eventMap, heap, nextId, stack, last, count, klass, checked>>
    /\ UNCHANGED sync

\* o.foo = newValue, by top-level code or by a listener.  Through the accessor
\* that emits: the original setter runs (it stores the value), or the value
\* goes to the hidden slot and initialValueIsSet becomes true; then the
\* emission is scheduled.  Without it: an ordinary assignment, which a
\* property without setter or a read-only property ignores.
Write(o, newValue) ==
    /\ sync \/ stack # <<>>
    /\ prop.state # "declared"
    /\ IF Bridged(o)
       THEN /\ fired[o].wrote + fired[IF o = "o1" THEN "o2" ELSE "o1"].wrote < MaxWrites
            /\ IF prop.decl \in {"accessor", "setter"}
               THEN /\ field' = [field EXCEPT ![o].back = newValue, ![o].set = newValue,
                                              ![o].got = "none"]
                    /\ UNCHANGED prop
               ELSE /\ field' = [field EXCEPT ![o].slot = newValue, ![o].set = newValue,
                                              ![o].got = "none"]
                    /\ prop' = [prop EXCEPT !.initialValueIsSet = TRUE]
            /\ queue' = Schedule(queue, o)
            /\ fired' = [fired EXCEPT ![o].wrote = @ + 1]
       ELSE /\ field' = IF prop.decl \in {"getter", "readonly"} THEN field
                        ELSE [field EXCEPT ![o].back = newValue]
            /\ UNCHANGED <<prop, queue, fired>>
    /\ UNCHANGED <<impl, scope, eventMap, heap, nextId, stack, last, count, klass, checked>>
    /\ UNCHANGED sync

\* A setter that schedules the emission before it calls the original setter.
WriteThrowsScheduled(o, newValue) ==
    /\ sync \/ stack # <<>>
    /\ Bridged(o)
    /\ prop.decl \in {"accessor", "setter"}
    /\ field[o].threw < MaxThrows
    /\ field' = [field EXCEPT ![o].threw = @ + 1]
    /\ queue' = Schedule(queue, o)
    /\ UNCHANGED <<impl, scope, eventMap, heap, nextId, stack, last, count, klass, checked>>
    /\ UNCHANGED <<prop, sync, fired>>

\* o.foo = newValue through the accessor that emits, when the original
\* setter throws: originalSet.call(this, newValue) is the first statement of
\* the setter, so the exception leaves it before anything is scheduled.
WriteThrows(o, newValue) ==
    /\ sync \/ stack # <<>>
    /\ Bridged(o)
    /\ prop.decl \in {"accessor", "setter"}
    /\ field[o].threw < MaxThrows
    /\ field' = [field EXCEPT ![o].threw = @ + 1]
    /\ UNCHANGED <<impl, scope, eventMap, heap, nextId, stack, last, count, klass, checked>>
    /\ UNCHANGED <<prop, queue, sync, fired>>

\* initialValue = descriptor.value: the value of a data property; a class
\* field and an accessor have none.
InitialValue == IF prop.decl \in {"data", "readonly"} THEN Declared ELSE UNDEFINED

\* A getter that shows an assigned value only once an emission has run.
GetValueAfterEmit(o) ==
    IF Bridged(o) /\ prop.decl \notin {"accessor", "setter"}
    THEN IF fired[o].ok = 0 THEN InitialValue ELSE field[o].slot
    ELSE field[o].back

\* What a read of o.foo returns.  Through the accessor that emits: the
\* original getter's value (undefined when there is no getter), or for a
\* plain property initialValue while initialValueIsSet is false and
\* this[vName] after.  Without it: the value stored, or the declared one.
GetValue(o) ==
    IF Bridged(o)
    THEN IF prop.decl = "accessor" THEN field[o].back
         ELSE IF prop.decl = "setter" THEN UNDEFINED
         ELSE IF ~prop.initialValueIsSet THEN InitialValue
         ELSE field[o].slot
    ELSE IF field[o].back # UNDEFINED THEN field[o].back ELSE InitialValue

\* A read of o.foo by top-level code or by a listener: the getter of a plain
\* property, on the first read ever, sets initialValueIsSet and stores
\* initialValue in this[vName].
Read(o) ==
    /\ sync \/ stack # <<>>
    /\ prop.state # "declared"
    /\ IF Bridged(o) /\ prop.decl \notin {"accessor", "setter"} /\ ~prop.initialValueIsSet
       THEN /\ prop' = [prop EXCEPT !.initialValueIsSet = TRUE]
            /\ field' = [field EXCEPT ![o].slot = InitialValue, ![o].got = GetValue(o)]
       ELSE /\ field' = [field EXCEPT ![o].got = GetValue(o)]
            /\ UNCHANGED prop
    /\ UNCHANGED <<impl, scope, eventMap, heap, nextId, stack, last, count, klass, checked>>
    /\ UNCHANGED <<queue, sync, fired>>

\* The synchronous code of the current task has run to completion: the
\* microtasks get their turn.
EndTask ==
    /\ sync
    /\ stack = <<>>
    /\ prop.state # "declared"
    /\ sync' = FALSE
    /\ UNCHANGED <<impl, scope, eventMap, heap, nextId, stack, last, count, klass, checked>>
    /\ UNCHANGED <<prop, field, queue, fired>>

\* Promise.resolve().then(other): top-level code defers a callback of its own.
Defer ==
    /\ sync
    /\ stack = <<>>
    /\ prop.state # "declared"
    /\ fired[Other].wrote < MaxDefer
    /\ queue' = Schedule(queue, Other)
    /\ fired' = [fired EXCEPT ![Other].wrote = @ + 1]
    /\ UNCHANGED <<impl, scope, eventMap, heap, nextId, stack, last, count, klass, checked>>
    /\ UNCHANGED <<prop, field, sync>>

\* The oldest microtask is a callback of the callers: it runs (and touches
\* neither the registry nor the property).
RunOther ==
    /\ ~sync
    /\ stack = <<>>
    /\ queue # <<>>
    /\ Head(queue).self = Other
    /\ queue' = Tail(queue)
    /\ fired' = [fired EXCEPT ![Other].ok = @ + 1]
    /\ UNCHANGED <<impl, scope, eventMap, heap, nextId, stack, last, count, klass, checked>>
    /\ UNCHANGED <<prop, field, sync>>

\* The queue is empty: the next task (a timer, an input event) starts.
NewTask ==
    /\ ~sync
    /\ stack = <<>>
    /\ queue = <<>>
    /\ sync' = TRUE
    /\ UNCHANGED <<impl, scope, eventMap, heap, nextId, stack, last, count, klass, checked>>
    /\ UNCHANGED <<prop, field, queue, fired>>

\* ---------------------------------------------------------------- helpers
\* A parameter that the call does not pass is undefined.
Arg(args, k) == IF k <= Len(args) THEN args[k] ELSE UNDEFINED

\* typeof callback === 'function'
IsFunction(v) == v \in Cbs

\* #eventMap = null
NullMap == [null |-> TRUE, map |-> <<>>]

\* A comparison that forgets the context.
CallbackMatches(tuple, callback, context) == tuple.cb = callback

\* tuple[0] === callback && tuple[1] === context
TupleMatches(tuple, callback, context) == tuple.cb = callback /\ tuple.ctx = context

\* A search that comes back with the last match instead of the first.
FindLastIndex(callbacks, callback, context) ==
    LET hits == {k \in 1..Len(callbacks) :
                    callbacks[k].cb = callback /\ callbacks[k].ctx = context}
    IN IF hits = {} THEN 0 ELSE CHOOSE k \in hits : \A j \in hits : k >= j

\* A search whose "not found" is taken for a position: like splice(-1, 1), it
\* makes off remove the last tuple.
FindIndexOrLast(callbacks, callback, context) ==
    LET hits == {k \in 1..Len(callbacks) :
                    callbacks[k].cb = callback /\ callbacks[k].ctx = context}
    IN IF hits = {} THEN Len(callbacks) ELSE CHOOSE k \in hits : \A j \in hits : k <= j

\* callbacks.findIndex(...) / Array.from(callbacks).find(...): the position of
\* the first tuple in insertion order that matches, 0 when there is none.
FindIndex(callbacks, callback, context) ==
    LET hits == {k \in 1..Len(callbacks) : TupleMatches(callbacks[k], callback, context)}
    IN IF hits = {} THEN 0 ELSE CHOOSE k \in hits : \A j \in hits : k <= j

\* A removal that removes nothing.
SpliceNone(callbacks, index) == callbacks

\* callbacks.splice(index, 1) / callbacks.delete(tuple)
Splice(callbacks, index) ==
    [k \in 1..(Len(callbacks) - 1) |-> IF k < index THEN callbacks[k] ELSE callbacks[k + 1]]

\* A registry that keeps one tuple per (callback, context) pair.
PushUnique(callbacks, tuple) ==
    IF \E k \in 1..Len(callbacks) :
           callbacks[k].cb = tuple.cb /\ callbacks[k].ctx = tuple.ctx
    THEN callbacks
    ELSE Append(callbacks, tuple)

\* A registry that puts the new tuple in front of the older ones.
PushFront(callbacks, tuple) == <<tuple>> \o callbacks

\* callbacks.push([callback, context]) / callbacks.add([callback, context]):
\* the tuple is a new object, so a Set never finds it already present.
Push(callbacks, tuple) == Append(callbacks, tuple)

\* The operations of the Set-based collection, with the tuples as the
\* objects they are (the id stands for the identity of the array [callback,
\* context]).  callbacks.add(tuple): a Set adds a value unless the same object
\* is a member already, at the end of its insertion order.
SetAdd(callbacks, tuple) ==
    IF tuple.id \in {callbacks[k].id : k \in 1..Len(callbacks)}
    THEN callbacks
    ELSE Append(callbacks, tuple)

\* Array.from(callbacks).find(tuple => tuple[0] === callback && tuple[1] ===
\* context): the id of the first member in insertion order that matches, 0
\* (undefined) when none does.
SetFind(callbacks, callback, context) ==
    LET hits == {k \in 1..Len(callbacks) : TupleMatches(callbacks[k], callback, context)}
    IN IF hits = {} THEN 0
       ELSE callbacks[CHOOSE k \in hits : \A j \in hits : k <= j].id

\* callbacks.delete(tuple): the member that is this object goes, the others
\* keep their insertion order.
SetDelete(callbacks, id) == SelectSeq(callbacks, LAMBDA t : t.id # id)

\* A lookup that does not look at the key: it finds a collection whenever the
\* map holds one.
MapGetAny(m, eventName) ==
    IF DOMAIN m = {} THEN 0 ELSE m[CHOOSE n \in DOMAIN m : TRUE]

\* eventMap.get(eventName): the address of the collection, 0 (undefined) when
\* the map has no such key.
MapGet(m, eventName) == IF eventName \in DOMAIN m THEN m[eventName] ELSE 0

\* eventMap.clear() where one key was to go.
MapClear(m, eventName) == <<>>

\* A map that keeps the key of a collection that has become empty.
MapKeep(m, eventName) == m

\* eventMap.delete(eventName)
MapDelete(m, eventName) == [n \in (DOMAIN m) \ {eventName} |-> m[n]]

\* The registry of one instance as its listeners see it: the ordered tuples
\* under every key of the map.
View(em, hp, o) ==
    [null |-> em[o].null, subs |-> [n \in DOMAIN em[o].map |-> hp[em[o].map[n]]]]

Registry == [o \in Instances |-> View(eventMap, heap, o)]

\* The tuples subscribed under eventName in a view (none when there is no key).
SubsOf(view, eventName) ==
    IF eventName \in DOMAIN view.subs THEN view.subs[eventName] ELSE <<>>

Ids(s) == {s[k].id : k \in 1..Len(s)}

NoCall ==
    [op |-> "none", self |-> "o1", args |-> <<>>, err |-> "none", pre |-> <<>>,
     start |-> <<>>, log |-> <<>>, added |-> {}, early |-> {}, selfOff |-> FALSE,
     otherOff |-> FALSE, thrower |-> 0]

\* ---------------------------------------------------------------- on
\* An on that creates the map and the key before it looks at the callback.
OnChecksLate(o, args) ==
    LET eventName == Arg(args, 1)
        callback == Arg(args, 2)
        context == Arg(args, 3)
        m0 == eventMap[o]
        m1 == IF m0.null THEN <<>> ELSE m0.map
        has == eventName \in DOMAIN m1
        ref == IF has THEN m1[eventName] ELSE Len(heap) + 1
        heap1 == IF has THEN heap ELSE Append(heap, <<>>)
        m2 == IF has THEN m1 ELSE m1 @@ (eventName :> ref)
        tuple == [cb |-> callback, ctx |-> context, id |-> nextId]
    IN IF callback \notin Cbs
       THEN [err |-> "Error", em |-> [null |-> FALSE, map |-> m2], heap |-> heap1,
             nextId |-> nextId]
       ELSE [err |-> "none", em |-> [null |-> FALSE, map |-> m2],
             heap |-> [heap1 EXCEPT ![ref] = Append(@, tuple)], nextId |-> nextId + 1]

\* An on whose map is one map of the class, shared by its instances (the one
\* that o1 holds).
OnShared(o, args) ==
    LET eventName == Arg(args, 1)
        callback == Arg(args, 2)
        context == Arg(args, 3)
        m0 == eventMap["o1"]
        m1 == IF m0.null THEN <<>> ELSE m0.map
        has == eventName \in DOMAIN m1
        ref == IF has THEN m1[eventName] ELSE Len(heap) + 1
        heap1 == IF has THEN heap ELSE Append(heap, <<>>)
        m2 == IF has THEN m1 ELSE m1 @@ (eventName :> ref)
        tuple == [cb |-> callback, ctx |-> context, id |-> nextId]
    IN IF callback \notin Cbs
       THEN [err |-> "Error", em |-> eventMap[o], heap |-> heap, nextId |-> nextId]
       ELSE [err |-> "none", em |-> [null |-> FALSE, map |-> m2],
             heap |-> [heap1 EXCEPT ![ref] = Append(@, tuple)], nextId |-> nextId + 1]

\* on(eventName, callback, context): what it leaves behind.
OnResult(o, args) ==
    LET eventName == Arg(args, 1)
        callback == Arg(args, 2)
        context == Arg(args, 3)
        m0 == eventMap[o]
        m1 == IF m0.null THEN <<>> ELSE m0.map
        has == MapGet(m1, eventName) # 0
        ref == IF has THEN MapGet(m1, eventName) ELSE Len(heap) + 1
        heap1 == IF has THEN heap ELSE Append(heap, <<>>)
        m2 == IF has THEN m1 ELSE m1 @@ (eventName :> ref)
        tuple == [cb |-> callback, ctx |-> context, id |-> nextId]
    IN IF ~IsFunction(callback)
       THEN [err |-> "Error", em |-> m0, heap |-> heap, nextId |-> nextId]
       ELSE [err |-> "none", em |-> [null |-> FALSE, map |-> m2],
             heap |-> [heap1 EXCEPT ![ref] = Push(@, tuple)], nextId |-> nextId + 1]

\* What an on/off call does to the emit calls in progress is only bookkeeping
\* for the properties: which tuples were added to or removed from the event a
\* frame is dispatching, and whether a removal was made by the listener it
\* invoked last naming its own (callback, context) pair.
NoteOn(f, o, eventName, id) ==
    IF f.self = o /\ f.name = eventName THEN [f EXCEPT !.added = @ \cup {id}] ELSE f

NoteOff(f, o, eventName, callback, context, removed) ==
    IF f.self = o /\ f.name = eventName /\ removed # {}
    THEN LET own == Len(f.log) > 0 /\ f.log[Len(f.log)].cb = callback
                    /\ f.log[Len(f.log)].ctx = context
         IN [f EXCEPT !.early = @ \cup (removed \ Ids(f.log)),
                      !.selfOff = @ \/ own,
                      !.otherOff = @ \/ ~own]
    ELSE f

\* The record of the call that top-level code made last (calls that listeners
\* make are not recorded).
CallRecord(op, o, args, err) ==
    IF stack = <<>>
    THEN [NoCall EXCEPT !.op = op, !.self = o, !.args = args, !.err = err, !.pre = Registry]
    ELSE last

On(o, args) ==
    /\ LET r == OnResult(o, args)
       IN /\ r.err = "none" => nextId <= MaxOn
          /\ eventMap' = [eventMap EXCEPT ![o] = r.em]
          /\ heap' = r.heap
          /\ nextId' = r.nextId
          /\ stack' = IF r.err = "none"
                      THEN [k \in 1..Len(stack) |-> NoteOn(stack[k], o, Arg(args, 1), nextId)]
                      ELSE stack
          /\ last' = CallRecord("on", o, args, r.err)
    /\ UNCHANGED <<impl, scope>>

\* ---------------------------------------------------------------- off
\* off(eventName, callback, context): what it leaves behind, and (for the
\* properties) the ids of the tuples it took out.
OffResult(o, args) ==
    LET eventName == Arg(args, 1)
        callback == Arg(args, 2)
        context == Arg(args, 3)
        m0 == eventMap[o]
        same == [em |-> m0, heap |-> heap, removed |-> {}]
    IN IF m0.null THEN same
       ELSE IF MapGet(m0.map, eventName) = 0 THEN same
       ELSE LET ref == MapGet(m0.map, eventName)
                callbacks == heap[ref]
                index == FindIndex(callbacks, callback, context)
            IN IF index = 0 THEN same
               ELSE LET after == Splice(callbacks, index)
                        m1 == IF Len(after) = 0 THEN MapDelete(m0.map, eventName)
                              ELSE m0.map
                    IN [em |-> IF DOMAIN m1 = {} THEN NullMap
                               ELSE [null |-> FALSE, map |-> m1],
                        heap |-> [heap EXCEPT ![ref] = after],
                        removed |-> {callbacks[index].id}]

Off(o, args) ==
    /\ LET r == OffResult(o, args)
       IN /\ eventMap' = [eventMap EXCEPT ![o] = r.em]
          /\ heap' = r.heap
          /\ stack' = [k \in 1..Len(stack) |->
                          NoteOff(stack[k], o, Arg(args, 1), Arg(args, 2), Arg(args, 3),
                                  r.removed)]
          /\ last' = CallRecord("off", o, args, "none")
    /\ UNCHANGED <<impl, scope, nextId>>

\* ---------------------------------------------------------------- emit
\* new Set(callbacks): a copy of the tuples in insertion order.
Snapshot(callbacks) == callbacks

\* The frame of an emit call that found callbacks for eventName.  The Set
\* registry iterates a copy; the array registry keeps the array itself and
\* the length it had when the loop began.
NewFrame(o, args) ==
    LET eventName == Arg(args, 1)
        ref == MapGet(eventMap[o].map, eventName)
    IN [self |-> o, name |-> eventName, args |-> args, data |-> Arg(args, 2),
        ref |-> ref,
        snap |-> IF impl = "Set" THEN Snapshot(heap[ref]) ELSE <<>>,
        len |-> IF impl = "Array" THEN Len(heap[ref]) ELSE 0,
        i |-> 1, log |-> <<>>,
        start |-> SubsOf(Registry[o], eventName), added |-> {}, early |-> {},
        selfOff |-> FALSE, otherOff |-> FALSE]

\* if (!eventMap) return; if (!callbacks) return
HasCallbacks(o, eventName) ==
    /\ ~eventMap[o].null
    /\ MapGet(eventMap[o].map, eventName) # 0

\* One turn of the loop of the emit call f: the tuple it invokes next, or that
\* it is done.  for (const [callback, context] of new Set(callbacks))
LoopNextSet(f) ==
    IF f.i <= Len(f.snap)
    THEN [kind |-> "invoke", tuple |-> f.snap[f.i]]
    ELSE [kind |-> "return"]

\* A loop that goes through the array from its end.
LoopNextArrayReverse(f) ==
    IF f.i <= f.len
    THEN IF f.len - f.i + 1 <= Len(heap[f.ref])
         THEN [kind |-> "invoke", tuple |-> heap[f.ref][f.len - f.i + 1]]
         ELSE [kind |-> "fault"]
    ELSE [kind |-> "return"]

\* for (let i = 0, len = callbacks.length; i < len; i += 1) { tuple =
\* callbacks[i]; callback = tuple[0]; ... }: when the array has become shorter
\* than len, callbacks[i] is undefined and tuple[0] throws a TypeError.
LoopNextArray(f) ==
    IF f.i <= f.len
    THEN IF f.i <= Len(heap[f.ref])
         THEN [kind |-> "invoke", tuple |-> heap[f.ref][f.i]]
         ELSE [kind |-> "fault"]
    ELSE [kind |-> "return"]

\* A loop over the live collection, up to the length it has now.
LoopNextLive(f) ==
    IF f.i <= Len(heap[f.ref])
    THEN [kind |-> "invoke", tuple |-> heap[f.ref][f.i]]
    ELSE [kind |-> "return"]

LoopNext(f) == IF impl = "Set" THEN LoopNextSet(f) ELSE LoopNextArray(f)

\* callback.call(context, data)
Invocation(f, tuple) ==
    [id |-> tuple.id, cb |-> tuple.cb, ctx |-> tuple.ctx, data |-> f.data]

EmitRecord(f, err) ==
    [op |-> "emit", self |-> f.self, args |-> f.args, err |-> err, pre |-> NoCall.pre,
     start |-> f.start, log |-> f.log, added |-> f.added, early |-> f.early,
     selfOff |-> f.selfOff, otherOff |-> f.otherOff, thrower |-> 0]

\* An emit with one cursor for all its calls: when a call ends, the calls
\* that were in progress around it end with it.
TurnFlat(below, f) ==
    LET nx == LoopNext(f)
        outer == IF below = <<>> THEN f ELSE below[1]
    IN IF nx.kind = "invoke"
       THEN /\ stack' = Append(below, [f EXCEPT !.log = Append(@, Invocation(f, nx.tuple)),
                                                !.i = @ + 1])
            /\ last' = IF below = <<>> THEN NoCall ELSE last
       ELSE /\ stack' = <<>>
            /\ last' = EmitRecord(outer, IF nx.kind = "fault" THEN "TypeError" ELSE "none")

\* The loop of the emit call f, whose callers' frames are below, takes its
\* next turn: it invokes a listener, which then runs on top of the stack, or
\* the call ends (it returns, or the TypeError leaves it) and its caller runs.
Turn(below, f) ==
    LET nx == LoopNext(f)
    IN IF nx.kind = "invoke"
       THEN /\ stack' = Append(below, [f EXCEPT !.log = Append(@, Invocation(f, nx.tuple)),
                                                !.i = @ + 1])
            /\ last' = IF below = <<>> THEN NoCall ELSE last
       ELSE /\ stack' = below
            /\ last' = IF below = <<>>
                       THEN EmitRecord(f, IF nx.kind = "fault" THEN "TypeError" ELSE "none")
                       ELSE last

\* emit(eventName, data), up to the first listener it invokes.
Emit(o, args) ==
    /\ stack = <<>> \/ scope.nested
    /\ IF HasCallbacks(o, Arg(args, 1))
       THEN Turn(stack, NewFrame(o, args))
       ELSE /\ last' = CallRecord("emit", o, args, "none")
            /\ UNCHANGED stack
    /\ UNCHANGED <<impl, scope, eventMap, heap, nextId>>

\* The listener that the emit call on top of the stack invoked last returns,
\* and the loop goes on.
Loop ==
    /\ stack # <<>>
    /\ Turn(SubSeq(stack, 1, Len(stack) - 1), stack[Len(stack)])
    /\ UNCHANGED <<impl, scope, eventMap, heap, nextId>>

\* ---------------------------------------------------------------- counters
Keys == Names \X Cbs \X Ctxs

NoCount == [key \in Keys |-> [subs |-> 0, due |-> 0, calls |-> 0]]

\* The callers' view of a call that returned: on(name, cb, ctx) subscribes the
\* pair once more, off(name, cb, ctx) takes one subscription of it back.
CountOn(c, args) ==
    LET key == <<Arg(args, 1), Arg(args, 2), Arg(args, 3)>>
    IN IF key \in Keys THEN [c EXCEPT ![key].subs = @ + 1] ELSE c

CountOff(c, args) ==
    LET key == <<Arg(args, 1), Arg(args, 2), Arg(args, 3)>>
    IN IF key \in Keys /\ c[key].subs > 0 THEN [c EXCEPT ![key].subs = @ - 1] ELSE c

\* An emit(eventName) call is made: every subscription of that name is due.
CountDue(c, eventName) ==
    [key \in Keys |-> IF key[1] = eventName THEN [c[key] EXCEPT !.due = @ + c[key].subs]
                      ELSE c[key]]

\* The listener that the turn of the emit call f invokes, if it invokes one,
\* increments its counter.
CountCall(c, f) ==
    LET nx == LoopNext(f)
    IN IF nx.kind = "invoke"
       THEN [c EXCEPT ![<<f.name, nx.tuple.cb, nx.tuple.ctx>>].calls = @ + 1]
       ELSE c

\* Top-level code (listeners only count) calls on, off and emit and keeps
\* the counters.
OnCounted(o, args) ==
    /\ stack = <<>>
    /\ On(o, args)
    /\ count' = IF OnResult(o, args).err = "none" THEN CountOn(count, args) ELSE count
    /\ UNCHANGED <<klass, checked, prop, field, queue, sync, fired>>

OffCounted(o, args) ==
    /\ stack = <<>>
    /\ Off(o, args)
    /\ count' = CountOff(count, args)
    /\ UNCHANGED <<klass, checked, prop, field, queue, sync, fired>>

EmitCounted(o, args) ==
    /\ \A key \in Keys : key[1] = Arg(args, 1) => count[key].due + count[key].subs <= MaxDue
    /\ Emit(o, args)
    /\ count' = IF HasCallbacks(o, Arg(args, 1))
                THEN CountCall(CountDue(count, Arg(args, 1)), NewFrame(o, args))
                ELSE CountDue(count, Arg(args, 1))
    /\ UNCHANGED <<klass, checked, prop, field, queue, sync, fired>>

LoopCounted ==
    /\ Loop
    /\ count' = CountCall(count, stack[Len(stack)])
    /\ UNCHANGED <<klass, checked, prop, field, queue, sync, fired>>

\* ---------------------------------------------------------------- deferred emission
\* emitEvent.call(this) in the place of the promise: the emission runs as
\* soon as no listener is running, whether or not the code that wrote has
\* run to completion.
RunJobEarly ==
    /\ stack = <<>>
    /\ queue # <<>>
    /\ Head(queue).self \in Instances
    /\ LET o == Head(queue).self
           args == <<EventName, PropName>>
       IN /\ IF HasCallbacks(o, Arg(args, 1))
             THEN Turn(stack, NewFrame(o, args))
             ELSE /\ last' = CallRecord("emit", o, args, "none")
                  /\ UNCHANGED stack
          /\ fired' = [fired EXCEPT ![o].ok = @ + 1]
    /\ queue' = Tail(queue)
    /\ UNCHANGED <<impl, scope, eventMap, heap, nextId>>
    /\ UNCHANGED <<count, klass, checked, prop, field, sync>>

\* An emission that dispatches to the collection that was created first,
\* whether or not it is the one that the name has now.
RunJobStale ==
    /\ ~sync
    /\ stack = <<>>
    /\ queue # <<>>
    /\ Head(queue).self \in Instances
    /\ LET o == Head(queue).self
           args == <<EventName, PropName>>
           old == IF heap = <<>> THEN <<>> ELSE heap[1]
           f == [self |-> o, name |-> EventName, args |-> args, data |-> PropName,
                 ref |-> 1, snap |-> IF impl = "Set" THEN old ELSE <<>>,
                 len |-> IF impl = "Array" THEN Len(old) ELSE 0,
                 i |-> 1, log |-> <<>>, start |-> old, added |-> {}, early |-> {},
                 selfOff |-> FALSE, otherOff |-> FALSE]
       IN /\ IF old # <<>>
             THEN Turn(stack, f)
             ELSE /\ last' = CallRecord("emit", o, args, "none")
                  /\ UNCHANGED stack
          /\ fired' = [fired EXCEPT ![o].ok = @ + 1]
    /\ queue' = Tail(queue)
    /\ UNCHANGED <<impl, scope, eventMap, heap, nextId>>
    /\ UNCHANGED <<count, klass, checked, prop, field, sync>>

\* The oldest microtask runs: emitEvent, bound to the instance that was
\* written, calls emit.
RunJob ==
    /\ ~sync
    /\ stack = <<>>
    /\ queue # <<>>
    /\ Head(queue).self \in Instances
    /\ LET o == Head(queue).self
           args == EmitEvent(o)
       IN /\ Emit(o, args)
          /\ fired' = IF args = <<EventName, PropName>>
                      THEN [fired EXCEPT ![o].ok = @ + 1]
                      ELSE [fired EXCEPT ![o].other = @ + 1]
    /\ queue' = Tail(queue)
    /\ UNCHANGED <<count, klass, checked, prop, field, sync>>

\* on and off called by synchronous top-level code or by a listener, and a
\* listener that returns, in a program with the decorated property.
Keeping == UNCHANGED <<count, klass, checked, prop, field, queue, sync, fired>>

OnBridged(o, args) == (sync \/ stack # <<>>) /\ prop.state # "declared" /\ On(o, args) /\ Keeping

\* An off that, when it leaves the instance without listeners, also discards
\* the emissions that are pending.
OffBridgedCancels(o, args) ==
    /\ (sync \/ stack # <<>>)
    /\ prop.state # "declared"
    /\ Off(o, args)
    /\ queue' = IF OffResult(o, args).em.null THEN <<>> ELSE queue
    /\ UNCHANGED <<count, klass, checked, prop, field, sync, fired>>

OffBridged(o, args) == (sync \/ stack # <<>>) /\ prop.state # "declared" /\ Off(o, args) /\ Keeping

LoopBridged == Loop /\ Keeping

\* ---------------------------------------------------------------- calls
\* The (event name, callback, context) triples that calls subscribe.
Triples ==
    {<<"a", "f", UNDEFINED>>, <<"a", "f", "ctxA">>, <<"a", "g", UNDEFINED>>,
     <<"b", "f", UNDEFINED>>}

\* A call may leave out a context that is undefined, a callback, or the
\* payload.
OnArgs ==
    Triples \cup {<<"a", "f">>} \cup {<<"a", c>> : c \in NotFns}
    \cup {<<"a", c, "ctxA">> : c \in NotFns}

OffArgs ==
    Triples \cup {<<"b", "g", UNDEFINED>>} \cup {<<"a", "f">>, <<"b", "g">>, <<"a">>}

EmitArgs == {<<"b">>} \cup {<<"a", d>> : d \in Datas}

\* Top-level code and listeners call on, off and emit on one instance;
\* listeners do not call emit.
Calls ==
    [self |-> {"o1"}, on |-> OnArgs, off |-> OffArgs, emit |-> EmitArgs, nested |-> FALSE]

\* The state after construction (#eventMap = null in every instance), for
\* callers that make the calls of calls.
Start(calls) ==
    /\ impl \in Impls
    /\ scope = calls
    /\ eventMap = [o \in Instances |-> NullMap]
    /\ heap = <<>>
    /\ nextId = 1
    /\ stack = <<>>
    /\ last = NoCall
    /\ count = NoCount
    /\ klass = MyClass
    /\ checked = NoCheck
    /\ Undecorated

Init == Start(Calls)

\* The callers keep no counters and check no instances.
Uncounted == UNCHANGED <<count, klass, checked>>

\* The class has no decorated property.
Plain == UNCHANGED <<prop, field, queue, sync, fired>>

Next ==
    \/ \E o \in scope.self, args \in scope.on : On(o, args) /\ Uncounted /\ Plain
    \/ \E o \in scope.self, args \in scope.off : Off(o, args) /\ Uncounted /\ Plain
    \/ \E o \in scope.self, args \in scope.emit : Emit(o, args) /\ Uncounted /\ Plain
    \/ Loop /\ Uncounted /\ Plain

Spec == Init /\ [][Next]_vars

\* The Set-based registry of src/src/Eventful.ts alone, and the array-based one
\* of the compiled build alone.
SpecSet == (Init /\ impl = "Set") /\ [][Next]_vars

SpecArray == (Init /\ impl = "Array") /\ [][Next]_vars

\* ---------------------------------------------------------------- throwing listeners
\* An emit that runs the listeners left before it lets the exception out.
ThrowAfterRest ==
    /\ stack # <<>>
    /\ LET f == stack[Len(stack)]
           below == SubSeq(stack, 1, Len(stack) - 1)
           left == IF impl = "Set" THEN SubSeq(f.snap, f.i, Len(f.snap))
                   ELSE SubSeq(heap[f.ref], f.i, Len(heap[f.ref]))
           rest == [k \in 1..Len(left) |-> Invocation(f, left[k])]
       IN /\ stack' = below
          /\ last' = IF below = <<>>
                     THEN [EmitRecord([f EXCEPT !.log = @ \o rest], "Thrown")
                               EXCEPT !.thrower = Len(f.log)]
                     ELSE last
    /\ UNCHANGED <<impl, scope, eventMap, heap, nextId>>

\* An emit that unsubscribes the listener that threw.
ThrowUnsubscribes ==
    /\ stack # <<>>
    /\ LET f == stack[Len(stack)]
           below == SubSeq(stack, 1, Len(stack) - 1)
           thrower == f.log[Len(f.log)].id
       IN /\ stack' = below
          /\ last' = IF below = <<>>
                     THEN [EmitRecord(f, "Thrown") EXCEPT !.thrower = Len(f.log)]
                     ELSE last
          /\ heap' = [heap EXCEPT ![f.ref] = SelectSeq(@, LAMBDA t : t.id # thrower)]
    /\ UNCHANGED <<impl, scope, eventMap, nextId>>

\* The listener that the emit call on top of the stack invoked last throws.
\* emit has no try/catch around callback.call(context, data): the exception
\* ends the loop and the call, and arrives in the caller of emit (top-level
\* code, or the listener that called emit).
Throw ==
    /\ stack # <<>>
    /\ LET f == stack[Len(stack)]
           below == SubSeq(stack, 1, Len(stack) - 1)
       IN /\ stack' = below
          /\ last' = IF below = <<>>
                     THEN [EmitRecord(f, "Thrown") EXCEPT !.thrower = Len(f.log)]
                     ELSE last
    /\ UNCHANGED <<impl, scope, eventMap, heap, nextId>>

\* Callers whose listeners may throw.
ThrowCalls ==
    [self |-> {"o1"},
     on |-> {<<"a", "f">>, <<"a", "g">>, <<"a", "f", "ctxA">>, <<"b", "g">>},
     off |-> {<<"a", "f">>, <<"a", "g">>, <<"b", "g">>},
     emit |-> EmitArgs, nested |-> FALSE]

NextThrows == Next \/ (Throw /\ Uncounted /\ Plain)

SpecThrows == Start(ThrowCalls) /\ [][NextThrows]_vars

\* ---------------------------------------------------------------- counting callers
\* The calls of the test "triggers an event handler based on event names".
CountCalls ==
    [self |-> {"o1"},
     on |-> {<<"a", "f">>, <<"b", "g">>},
     off |-> {<<"a", "f">>, <<"b", "g">>, <<"b", "f">>},
     emit |-> {<<"a">>, <<"b">>}, nested |-> FALSE]

NextCount ==
    \/ \E o \in scope.self, args \in scope.on : OnCounted(o, args)
    \/ \E o \in scope.self, args \in scope.off : OffCounted(o, args)
    \/ \E o \in scope.self, args \in scope.emit : EmitCounted(o, args)
    \/ LoopCounted

SpecCount == Start(CountCalls) /\ [][NextCount]_vars

\* ---------------------------------------------------------------- instance checks
\* Callers that define a class and evaluate `value instanceof Eventful` for a
\* falsy value, for an instance of the class, for its prototype and for an
\* object literal with the three methods.
StartInstanceOf ==
    /\ impl \in Impls
    /\ scope = [Calls EXCEPT !.on = {}, !.off = {}, !.emit = {}]
    /\ eventMap = [o \in Instances |-> NullMap]
    /\ heap = <<>>
    /\ nextId = 1
    /\ stack = <<>>
    /\ last = NoCall
    /\ count = NoCount
    /\ klass \in Classes
    /\ checked = NoCheck
    /\ Undecorated

NextInstanceOf ==
    \/ \E value \in Falsy : InstanceOf("falsy", value)
    \/ InstanceOf("instance", New(klass))
    \/ InstanceOf("prototype", Prototype(klass))
    \/ InstanceOf("literal", Literal)

SpecInstanceOf == StartInstanceOf /\ [][NextInstanceOf]_vars

\* ---------------------------------------------------------------- decorator
\* class Foo extends Eventful() { @emits('a') foo }, class Bar extends Foo
\* { @emits('a') foo }, and classes without Eventful in their chain (one of
\* them with methods on, off and emit).
BridgeClasses ==
    {[base |-> "Object", mixin |-> TRUE, depth |-> 1, duck |-> FALSE],
     [base |-> "Object", mixin |-> TRUE, depth |-> 2, duck |-> FALSE],
     [base |-> "Object", mixin |-> FALSE, depth |-> 1, duck |-> FALSE],
     [base |-> "Object", mixin |-> FALSE, depth |-> 1, duck |-> TRUE]}

\* The callers write the property of one instance and subscribe to its event.
BridgeCalls ==
    [self |-> {"o1"}, on |-> {<<"a", "f">>}, off |-> {<<"a", "f">>}, emit |-> {},
     nested |-> FALSE]

StartBridge ==
    /\ impl \in Impls
    /\ scope = BridgeCalls
    /\ eventMap = [o \in Instances |-> NullMap]
    /\ heap = <<>>
    /\ nextId = 1
    /\ stack = <<>>
    /\ last = NoCall
    /\ count = NoCount
    /\ klass \in BridgeClasses
    /\ checked = NoCheck
    /\ prop \in {[NoProp EXCEPT !.decl = d, !.target = t] : d \in Decls, t \in Targets}
    /\ field = NoField
    /\ queue = <<>>
    /\ sync = TRUE
    /\ fired = NoFired

NextBridge ==
    \/ Decorate
    \/ \E o \in scope.self, newValue \in Vals : Write(o, newValue)
    \/ \E o \in scope.self, args \in scope.on : OnBridged(o, args)
    \/ \E o \in scope.self, args \in scope.off : OffBridged(o, args)
    \/ EndTask
    \/ RunJob
    \/ LoopBridged
    \/ NewTask

SpecBridge == StartBridge /\ [][NextBridge]_vars

\* ---------------------------------------------------------------- microtask queue
\* Two instances of class Foo extends Eventful() { @emits('a') foo }, one
\* value to write, listeners that are subscribed and never unsubscribed, and
\* callers that defer callbacks of their own.
QueueCalls ==
    [self |-> {"o1", "o2"}, on |-> {<<"a", "f">>}, off |-> {}, emit |-> {},
     nested |-> FALSE]

StartQueue ==
    /\ impl \in Impls
    /\ scope = QueueCalls
    /\ eventMap = [o \in Instances |-> NullMap]
    /\ heap = <<>>
    /\ nextId = 1
    /\ stack = <<>>
    /\ last = NoCall
    /\ count = NoCount
    /\ klass = [base |-> "Object", mixin |-> TRUE, depth |-> 1, duck |-> FALSE]
    /\ checked = NoCheck
    /\ prop \in {[NoProp EXCEPT !.decl = d] : d \in {"field", "accessor"}}
    /\ field = NoField
    /\ queue = <<>>
    /\ sync = TRUE
    /\ fired = NoFired

NextQueue ==
    \/ Decorate
    \/ \E o \in scope.self : Write(o, "v1")
    \/ Defer
    \/ \E o \in scope.self, args \in scope.on : OnBridged(o, args)
    \/ EndTask
    \/ RunJob
    \/ RunOther
    \/ LoopBridged
    \/ NewTask

SpecQueue == StartQueue /\ [][NextQueue]_vars

\* ---------------------------------------------------------------- draining
\* One instance of a class with the decorated property, written and
\* subscribed to by callers whose synchronous code and whose listeners run to
\* completion, on a host that runs every microtask it holds.
DrainCalls ==
    [self |-> {"o1"}, on |-> {<<"a", "f">>}, off |-> {<<"a", "f">>}, emit |-> {},
     nested |-> FALSE]

StartDrain ==
    /\ impl \in Impls
    /\ scope = DrainCalls
    /\ eventMap = [o \in Instances |-> NullMap]
    /\ heap = <<>>
    /\ nextId = 1
    /\ stack = <<>>
    /\ last = NoCall
    /\ count = NoCount
    /\ klass = [base |-> "Object", mixin |-> TRUE, depth |-> 1, duck |-> FALSE]
    /\ checked = NoCheck
    /\ prop \in {[NoProp EXCEPT !.decl = d, !.target = t] :
                    d \in {"field", "accessor"}, t \in Targets}
    /\ field = NoField
    /\ queue = <<>>
    /\ sync = TRUE
    /\ fired = NoFired

NextDrain ==
    \/ Decorate
    \/ \E o \in scope.self : Write(o, "v1")
    \/ \E o \in scope.self, args \in scope.on : OnBridged(o, args)
    \/ \E o \in scope.self, args \in scope.off : OffBridged(o, args)
    \/ EndTask
    \/ RunJob
    \/ LoopBridged
    \/ NewTask

\* The synchronous code of a task ends, a listener that was invoked returns,
\* and the host runs the microtask at the head of its queue.
SpecDrain ==
    /\ StartDrain
    /\ [][NextDrain]_vars
    /\ WF_vars(EndTask)
    /\ WF_vars(LoopBridged)
    /\ WF_vars(RunJob)

\* ---------------------------------------------------------------- reads and writes
\* Two instances of class Foo extends Eventful() with the decorated property
\* declared in every way, and callers that read and write it; nobody
\* subscribes.
ReadCalls ==
    [self |-> {"o1", "o2"}, on |-> {}, off |-> {}, emit |-> {}, nested |-> FALSE]

StartRead ==
    /\ impl \in Impls
    /\ scope = ReadCalls
    /\ eventMap = [o \in Instances |-> NullMap]
    /\ heap = <<>>
    /\ nextId = 1
    /\ stack = <<>>
    /\ last = NoCall
    /\ count = NoCount
    /\ klass = [base |-> "Object", mixin |-> TRUE, depth |-> 1, duck |-> FALSE]
    /\ checked = NoCheck
    /\ prop \in {[NoProp EXCEPT !.decl = d, !.target = t] : d \in Decls, t \in Targets}
    /\ field = NoField
    /\ queue = <<>>
    /\ sync = TRUE
    /\ fired = NoFired

NextRead ==
    \/ Decorate
    \/ \E o \in scope.self, newValue \in Vals : Write(o, newValue)
    \/ \E o \in scope.self, newValue \in Vals : WriteThrows(o, newValue)
    \/ \E o \in scope.self : Read(o)
    \/ EndTask
    \/ RunJob
    \/ NewTask

SpecRead == StartRead /\ [][NextRead]_vars

\* ---------------------------------------------------------------- reentrant emit
\* Top-level code and listeners call on, off and emit on one instance.
NestedCalls ==
    [self |-> {"o1"}, on |-> {<<"a", "f">>, <<"a", "g">>, <<"b", "f">>},
     off |-> {<<"a", "f">>}, emit |-> {<<"a", "p">>, <<"b">>}, nested |-> TRUE]

\* emit called by top-level code or by a listener of an emit call in
\* progress.
EmitNested(o, args) == Len(stack) < MaxDepth /\ Emit(o, args)

NextNested ==
    \/ \E o \in scope.self, args \in scope.on : On(o, args) /\ Uncounted /\ Plain
    \/ \E o \in scope.self, args \in scope.off : Off(o, args) /\ Uncounted /\ Plain
    \/ \E o \in scope.self, args \in scope.emit : EmitNested(o, args) /\ Uncounted /\ Plain
    \/ Loop /\ Uncounted /\ Plain

SpecNested == Start(NestedCalls) /\ [][NextNested]_vars

\* ---------------------------------------------------------------- termination
\* Listeners that subscribe and unsubscribe during the pass and return; no
\* listener calls emit.
TermCalls ==
    [self |-> {"o1"}, on |-> {<<"a", "f">>, <<"a", "g">>, <<"b", "f">>},
     off |-> {<<"a", "f">>}, emit |-> {<<"a">>, <<"b", "p">>}, nested |-> FALSE]

\* Every listener that was invoked returns.
SpecTerm ==
    /\ Start(TermCalls)
    /\ [][Next]_vars
    /\ WF_vars(Loop /\ Uncounted /\ Plain)

\* ---------------------------------------------------------------- the gap
\* Callers that subscribe and unsubscribe only between a write and its
\* deferred emission: in the synchronous code that follows the write, while
\* the emission is pending.
GapCalls ==
    [self |-> {"o1"}, on |-> {<<"a", "f">>, <<"a", "g">>}, off |-> {<<"a", "f">>},
     emit |-> {}, nested |-> FALSE]

OnGap(o, args) == stack = <<>> /\ queue # <<>> /\ OnBridged(o, args)

OffGap(o, args) == stack = <<>> /\ queue # <<>> /\ OffBridged(o, args)

StartGap ==
    /\ impl \in Impls
    /\ scope = GapCalls
    /\ eventMap = [o \in Instances |-> NullMap]
    /\ heap = <<>>
    /\ nextId = 1
    /\ stack = <<>>
    /\ last = NoCall
    /\ count = NoCount
    /\ klass = [base |-> "Object", mixin |-> TRUE, depth |-> 1, duck |-> FALSE]
    /\ checked = NoCheck
    /\ prop \in {[NoProp EXCEPT !.decl = d, !.target = t] :
                    d \in {"field", "accessor"}, t \in Targets}
    /\ field = NoField
    /\ queue = <<>>
    /\ sync = TRUE
    /\ fired = NoFired

NextGap ==
    \/ Decorate
    \/ \E o \in scope.self : Write(o, "v1")
    \/ \E o \in scope.self, args \in scope.on : OnGap(o, args)
    \/ \E o \in scope.self, args \in scope.off : OffGap(o, args)
    \/ EndTask
    \/ RunJob
    \/ LoopBridged
    \/ NewTask

SpecGap == StartGap /\ [][NextGap]_vars

\* ---------------------------------------------------------------- handlers that read
\* Top-level code subscribes f and assigns "v1", "v2", "v1" in turn; the
\* listener reads the property back while it is invoked.
HandlerCalls ==
    [self |-> {"o1"}, on |-> {<<"a", "f">>}, off |-> {}, emit |-> {}, nested |-> FALSE]

NextValue(o) == IF fired[o].wrote % 2 = 0 THEN "v1" ELSE "v2"

WriteTop(o) == stack = <<>> /\ Write(o, NextValue(o))

OnTop(o, args) == stack = <<>> /\ OnBridged(o, args)

ReadInHandler(o) == stack # <<>> /\ stack[1].self = o /\ Read(o)

StartHandler ==
    /\ impl \in Impls
    /\ scope = HandlerCalls
    /\ eventMap = [o \in Instances |-> NullMap]
    /\ heap = <<>>
    /\ nextId = 1
    /\ stack = <<>>
    /\ last = NoCall
    /\ count = NoCount
    /\ klass = [base |-> "Object", mixin |-> TRUE, depth |-> 1, duck |-> FALSE]
    /\ checked = NoCheck
    /\ prop \in {[NoProp EXCEPT !.decl = d, !.target = t] :
                    d \in {"field", "data", "accessor"}, t \in Targets}
    /\ field = NoField
    /\ queue = <<>>
    /\ sync = TRUE
    /\ fired = NoFired

NextHandler ==
    \/ Decorate
    \/ \E o \in scope.self : WriteTop(o)
    \/ \E o \in scope.self, args \in scope.on : OnTop(o, args)
    \/ \E o \in scope.self : ReadInHandler(o)
    \/ EndTask
    \/ RunJob
    \/ LoopBridged
    \/ NewTask

SpecHandler == StartHandler /\ [][NextHandler]_vars

\* ---------------------------------------------------------------- listeners that throw
\* A failure that ends the whole microtask checkpoint: the callbacks that
\* are still pending are dropped.
ThrowDropsQueue ==
    /\ Throw
    /\ queue' = <<>>
    /\ UNCHANGED <<count, klass, checked, prop, field, sync, fired>>

\* A listener throws during a deferred emission: the exception leaves emit
\* and emitEvent and rejects the promise that then() returned; the other
\* callbacks that are pending stay in the microtask queue.
ThrowBridged == Throw /\ Keeping

\* Top-level code subscribes f and g and assigns the property; the listeners
\* may throw.
FailCalls ==
    [self |-> {"o1"}, on |-> {<<"a", "f">>, <<"a", "g">>}, off |-> {}, emit |-> {},
     nested |-> FALSE]

StartFail ==
    /\ impl \in Impls
    /\ scope = FailCalls
    /\ eventMap = [o \in Instances |-> NullMap]
    /\ heap = <<>>
    /\ nextId = 1
    /\ stack = <<>>
    /\ last = NoCall
    /\ count = NoCount
    /\ klass = [base |-> "Object", mixin |-> TRUE, depth |-> 1, duck |-> FALSE]
    /\ checked = NoCheck
    /\ prop \in {[NoProp EXCEPT !.decl = d, !.target = t] :
                    d \in {"field", "accessor"}, t \in Targets}
    /\ field = NoField
    /\ queue = <<>>
    /\ sync = TRUE
    /\ fired = NoFired

NextFail ==
    \/ Decorate
    \/ \E o \in scope.self : WriteTop(o)
    \/ \E o \in scope.self, args \in scope.on : OnTop(o, args)
    \/ EndTask
    \/ RunJob
    \/ LoopBridged
    \/ ThrowBridged
    \/ NewTask

SpecFail ==
    /\ StartFail
    /\ [][NextFail]_vars
    /\ WF_vars(EndTask)
    /\ WF_vars(LoopBridged)
    /\ WF_vars(RunJob)

\* ---------------------------------------------------------------- two instances
\* Callers that work with two instances of one class Eventful(Base).
InstanceCalls ==
    [self |-> {"o1", "o2"},
     on |-> {<<"a", "f">>, <<"a", "g">>},
     off |-> {<<"a", "f">>, <<"a", "g">>},
     emit |-> {<<"a", "p">>}, nested |-> FALSE]

SpecInstances == Start(InstanceCalls) /\ [][Next]_vars

\* ---------------------------------------------------------------- properties
\* The emit call that top-level code made last has returned, and during it no
\* listener called on or off for the event it dispatched.
QuietEmit ==
    /\ last.op = "emit"
    /\ last.added = {}
    /\ ~last.selfOff
    /\ ~last.otherOff

\* C1: after on calls followed by emit(name, payload), with no listener touching
\* the registry, emit has invoked every entry subscribed under name exactly
\* once, with its context as receiver and payload as the only argument, in the
\* order in which the entries were registered.
C1_EmitInvokesEachOnceInOrder ==
    QuietEmit =>
        /\ last.err = "none"
        /\ Len(last.log) = Len(last.start)
        /\ \A k \in 1..Len(last.start) :
               /\ k <= Len(last.log)
               /\ last.log[k].id = last.start[k].id
               /\ last.log[k].cb = last.start[k].cb
               /\ last.log[k].ctx = last.start[k].ctx
               /\ last.log[k].data = (IF Len(last.args) >= 2 THEN last.args[2] ELSE UNDEFINED)
        /\ \A j, k \in 1..Len(last.log) : j < k => last.log[j].id < last.log[k].id

C1_Witness ==
    /\ QuietEmit
    /\ Len(last.log) = 3
    /\ last.log[1].ctx # last.log[2].ctx
    /\ last.log[2].cb # last.log[3].cb
    /\ last.log[3].data = "p"

\* How often the tuple with this id was invoked in a log.
Times(log, id) == Cardinality({k \in 1..Len(log) : log[k].id = id})

\* C2: a listener that calls off(name, itself, its context) inside its own
\* invocation never makes emit fault, and every other entry subscribed when
\* emit began is still invoked in that emit call.  (Stated for emit calls in
\* which this is the only thing listeners did to the event.)
C2_SelfOffKeepsDispatch ==
    (last.op = "emit" /\ last.selfOff /\ ~last.otherOff /\ last.added = {}) =>
        /\ last.err = "none"
        /\ \A k \in 1..Len(last.start) : Times(last.log, last.start[k].id) >= 1

\* C3: when listeners call off for other entries of the event being emitted,
\* every entry subscribed when emit began and not removed before its turn is
\* invoked exactly once in that pass, and emit does not read past the end of
\* the collection or throw.
C3_OtherOffKeepsDispatch ==
    (last.op = "emit" /\ last.otherOff /\ ~last.selfOff /\ last.added = {}) =>
        /\ last.err = "none"
        /\ \A k \in 1..Len(last.start) :
               last.start[k].id \notin last.early => Times(last.log, last.start[k].id) = 1

\* C4: an entry subscribed under name by a listener while emit(name) is
\* dispatching is never invoked during that emit call, also when a listener
\* removed an entry during the call.
C4_AddedNotInvokedInPass ==
    /\ \A k \in 1..Len(stack) : Ids(stack[k].log) \cap stack[k].added = {}
    /\ last.op = "emit" => Ids(last.log) \cap last.added = {}

\* The arguments of the call that top-level code made last, as the callee
\* names them, and the entries under its event name before and after it.
LastName == IF Len(last.args) >= 1 THEN last.args[1] ELSE UNDEFINED

LastCallback == IF Len(last.args) >= 2 THEN last.args[2] ELSE UNDEFINED

LastContext == IF Len(last.args) >= 3 THEN last.args[3] ELSE UNDEFINED

Before == SubsOf(last.pre[last.self], LastName)

After == SubsOf(Registry[last.self], LastName)

\* The positions of s that hold the pair (callback, context).
Hits(s, callback, context) ==
    {k \in 1..Len(s) : s[k].cb = callback /\ s[k].ctx = context}

\* s without its k-th element.
Without(s, k) == SubSeq(s, 1, k - 1) \o SubSeq(s, k + 1, Len(s))

\* C5: off(name, cb, ctx) removes at most one entry, the first one in insertion
\* order whose callback and context are both cb and ctx, and the other entries
\* keep their order; when no entry matches, the entries stay as they are and
\* off does not throw.
C5_OffRemovesFirstMatch ==
    last.op = "off" =>
        /\ last.err = "none"
        /\ Len(After) >= Len(Before) - 1
        /\ LET hits == Hits(Before, LastCallback, LastContext)
           IN IF hits = {} THEN After = Before
              ELSE \E k \in hits : (\A j \in hits : k <= j) /\ After = Without(Before, k)

C5_Witness ==
    /\ last.op = "off"
    /\ Len(Before) = 3
    /\ Hits(Before, LastCallback, LastContext) = {2, 3}
    /\ Ids(After) = {Before[1].id, Before[3].id}

\* The pairs that calls can name.
Pairs == {<<c, x>> : c \in Cbs, x \in Ctxs}

\* C6: on does not deduplicate.  Subscribing a pair adds one entry for it
\* whether or not the pair is subscribed already, emit invokes a pair as many
\* times as it has entries, and each off that finds the pair takes away
\* exactly one of its entries.
C6_NoDeduplication ==
    \A p \in Pairs :
        LET named == LastCallback = p[1] /\ LastContext = p[2]
            before == Cardinality(Hits(Before, p[1], p[2]))
            after == Cardinality(Hits(After, p[1], p[2]))
        IN /\ (last.op = "on" /\ last.err = "none") =>
                  after = before + (IF named THEN 1 ELSE 0)
           /\ last.op = "off" =>
                  after = before - (IF named /\ before > 0 THEN 1 ELSE 0)
           /\ (QuietEmit /\ last.err = "none") =>
                  Cardinality(Hits(last.log, p[1], p[2]))
                      = Cardinality(Hits(last.start, p[1], p[2]))

C6_Witness ==
    /\ QuietEmit
    /\ nextId = 4
    /\ Len(last.start) = 3
    /\ Cardinality(Hits(last.log, "f", UNDEFINED)) = 3

\* C7: off compares callback and context together.  The entries it removes
\* have exactly the callback and the context passed, an entry of the same
\* callback with another context stays subscribed, and a call without a
\* context argument does what the call with context undefined does.
C7_OffMatchesCallbackAndContext ==
    /\ last.op = "off" =>
           /\ \A k \in 1..Len(Before) :
                  Before[k].id \notin Ids(After)
                      => Before[k].cb = LastCallback /\ Before[k].ctx = LastContext
           /\ Len(last.args) = 2 =>
                  \A k \in 1..Len(Before) :
                      Before[k].ctx # UNDEFINED => Before[k].id \in Ids(After)
    /\ \A o \in Instances, n \in Names, c \in Cbs :
           OffResult(o, <<n, c>>) = OffResult(o, <<n, c, UNDEFINED>>)

C7_Witness ==
    /\ last.op = "off"
    /\ Len(last.args) = 2
    /\ Len(Before) = 2
    /\ Before[1].cb = LastCallback /\ Before[1].ctx = "ctxA"
    /\ Before[2].cb = LastCallback /\ Before[2].ctx = UNDEFINED
    /\ Ids(After) = {Before[1].id}

\* C8: off for a pair that is not subscribed under name (no map, no entries
\* for name, no matching entry, or the callback subscribed under another name
\* only) does not throw and leaves every subscription of every instance as it
\* was.
C8_OffOfUnsubscribedIsNoOp ==
    (last.op = "off" /\ Hits(Before, LastCallback, LastContext) = {}) =>
        /\ last.err = "none"
        /\ Registry = last.pre

C8_Witness ==
    /\ last.op = "off"
    /\ last.args = <<"b", "g">>
    /\ Len(Before) = 1
    /\ Hits(SubsOf(last.pre[last.self], "a"), "g", UNDEFINED) # {}
    /\ Len(SubsOf(Registry[last.self], "a")) = 2

\* C9: emit(name, payload) on an instance without subscriptions, or without
\* any for name, invokes no listener, does not throw and leaves the registry
\* as it was; emit dispatches only when name has entries.
C9_EmitWithoutSubscribers ==
    /\ (last.op = "emit" /\ last.start = <<>>) =>
           /\ last.log = <<>>
           /\ last.err = "none"
           /\ Registry = last.pre
    /\ \A k \in 1..Len(stack) : stack[k].start # <<>>

C9_Witness ==
    /\ last.op = "emit"
    /\ last.args = <<"b">>
    /\ last.start = <<>>
    /\ ~Registry[last.self].null
    /\ Len(SubsOf(Registry[last.self], "a")) = 2

\* C10: on(name, callback, ctx) with a callback that is not a function throws,
\* and the registry is what it was before the call: no map, no key for name
\* and no entry has been created.
C10_OnRejectsNonFunction ==
    (last.op = "on" /\ LastCallback \notin Cbs) =>
        /\ last.err = "Error"
        /\ Registry = last.pre

C10_Witness ==
    /\ last.op = "on"
    /\ LastCallback \notin Cbs
    /\ last.args = <<"a", UNDEFINED, "ctxA">>
    /\ last.err = "Error"
    /\ Registry[last.self].null

\* C11: when a listener throws during emit(name), the exception reaches the
\* caller of emit and the listener that threw is the last one invoked in that
\* emit call; when no listener changed the entries of the event during the
\* call, the listeners invoked are the entries up to the one that threw, once
\* each and in order, and no entry after it is invoked.
C11_ThrowAbortsDispatch ==
    (last.op = "emit" /\ last.err = "Thrown") =>
        /\ stack = <<>>
        /\ last.thrower >= 1
        /\ last.thrower = Len(last.log)
        /\ QuietEmit =>
               /\ Len(last.log) <= Len(last.start)
               /\ \A k \in 1..Len(last.log) : last.log[k].id = last.start[k].id
               /\ \A k \in (Len(last.log) + 1)..Len(last.start) :
                      Times(last.log, last.start[k].id) = 0

C11_Witness ==
    /\ QuietEmit
    /\ last.err = "Thrown"
    /\ Len(last.start) = 3
    /\ Len(last.log) = 2
    /\ last.log[2].id = last.start[2].id

\* C12: in every state, also inside emit calls whose listeners call on and
\* off, an event name is a key of the map of an instance exactly when an entry
\* is subscribed under it (no key holds an empty collection), and the map is
\* null exactly when the instance has no entry at all; where a key exists emit
\* finds the collection and invokes its first entry, so after an on that
\* follows the release of the map dispatch works again.
C12_KeysOnlyWhileSubscribed ==
    \A o \in Instances :
        /\ eventMap[o].null <=> (DOMAIN eventMap[o].map = {})
        /\ eventMap[o].null <=> (\A n \in Names : SubsOf(Registry[o], n) = <<>>)
        /\ \A n \in Names :
               /\ (n \in DOMAIN eventMap[o].map) <=> (SubsOf(Registry[o], n) # <<>>)
               /\ n \in DOMAIN eventMap[o].map =>
                      /\ heap[MapGet(eventMap[o].map, n)] # <<>>
                      /\ HasCallbacks(o, n)
                      /\ LoopNext(NewFrame(o, <<n>>)).kind = "invoke"
                      /\ LoopNext(NewFrame(o, <<n>>)).tuple = SubsOf(Registry[o], n)[1]

\* An on that finds the map released by the off calls before it: it creates a
\* new map and a new collection.
C12_Witness ==
    /\ last.op = "on"
    /\ last.err = "none"
    /\ last.pre[last.self].null
    /\ Len(heap) = 2
    /\ heap[1] = <<>>
    /\ ~eventMap[last.self].null
    /\ Len(After) = 1

\* The registries of all instances as they are after the call o.on(...args)
\* or o.off(...args) made in this state, by top-level code or by a listener.
AfterOn(o, args) ==
    [p \in Instances |->
        View([eventMap EXCEPT ![o] = OnResult(o, args).em], OnResult(o, args).heap, p)]

AfterOff(o, args) ==
    [p \in Instances |->
        View([eventMap EXCEPT ![o] = OffResult(o, args).em], OffResult(o, args).heap, p)]

\* The ids of the entries of instance o under the names other than eventName.
IdsElsewhere(o, eventName) ==
    UNION {Ids(SubsOf(Registry[o], n)) : n \in Names \ {eventName}}

\* C14: event names are isolated.  An on or off call under one name, made in
\* any state by top-level code or by a listener, leaves the ordered entries of
\* every other name as they are; and an emit call never invokes an entry that
\* is subscribed under another name than the one it emits.
C14_NamesIsolated ==
    /\ \A o \in scope.self, args \in scope.on :
           \A n \in Names \ {Arg(args, 1)} :
               SubsOf(AfterOn(o, args)[o], n) = SubsOf(Registry[o], n)
    /\ \A o \in scope.self, args \in scope.off :
           \A n \in Names \ {Arg(args, 1)} :
               SubsOf(AfterOff(o, args)[o], n) = SubsOf(Registry[o], n)
    /\ \A k \in 1..Len(stack) :
           Ids(stack[k].log) \cap IdsElsewhere(stack[k].self, stack[k].name) = {}
    /\ last.op = "emit" => Ids(last.log) \cap IdsElsewhere(last.self, LastName) = {}
    /\ last.op \in {"on", "off"} =>
           \A n \in Names \ {LastName} :
               SubsOf(Registry[last.self], n) = SubsOf(last.pre[last.self], n)

\* emit('a', ...) has invoked the two entries of a, and not the entry of b,
\* whose callback is subscribed under a as well.
C14_Witness ==
    /\ last.op = "emit"
    /\ last.err = "none"
    /\ LastName = "a"
    /\ Len(last.log) = 2
    /\ Len(SubsOf(Registry[last.self], "b")) = 1
    /\ SubsOf(Registry[last.self], "b")[1].cb = last.log[1].cb
    /\ SubsOf(Registry[last.self], "b")[1].id \notin Ids(last.log)

\* The ids of the entries of the instances other than o, and the addresses of
\* the collections of an instance.
IdsOfOthers(o) ==
    UNION {Ids(SubsOf(Registry[p], n)) : p \in Instances \ {o}, n \in Names}

Refs(o) == {eventMap[o].map[n] : n \in DOMAIN eventMap[o].map}

\* C15: the registry is per instance, also for two instances of one class.
\* No two instances hold the same collection; an on or off call on one
\* instance, made in any state by top-level code or by a listener, leaves the
\* registry of every other instance as it is; and an emit call on one instance
\* never invokes an entry of another instance.
C15_InstancesIsolated ==
    /\ \A o, p \in Instances : o # p => Refs(o) \cap Refs(p) = {}
    /\ \A o \in scope.self, args \in scope.on :
           \A p \in Instances \ {o} : AfterOn(o, args)[p] = Registry[p]
    /\ \A o \in scope.self, args \in scope.off :
           \A p \in Instances \ {o} : AfterOff(o, args)[p] = Registry[p]
    /\ \A k \in 1..Len(stack) : Ids(stack[k].log) \cap IdsOfOthers(stack[k].self) = {}
    /\ last.op = "emit" => Ids(last.log) \cap IdsOfOthers(last.self) = {}
    /\ last.op \in {"on", "off"} =>
           \A p \in Instances \ {last.self} : Registry[p] = last.pre[p]

\* o2.emit('a', ...) has invoked the one entry of o2, while o1 holds two
\* entries under the same name, one of them with the same callback.
C15_Witness ==
    /\ last.op = "emit"
    /\ last.self = "o2"
    /\ Len(last.log) = 1
    /\ Len(SubsOf(Registry["o1"], "a")) = 2
    /\ SubsOf(Registry["o1"], "a")[2].cb = last.log[1].cb
    /\ Ids(last.log) = Ids(SubsOf(Registry["o2"], "a"))

\* C13: between the calls of top-level code, every callback has been invoked
\* with a context as often as emit(name) was called while the pair was
\* subscribed under name (once per subscription); and an emit(name) call made
\* after off took the last subscription of a pair back, and before the next
\* on for it, does not invoke the callback with that context.
C13_OffStopsInvocations ==
    /\ stack = <<>> => \A key \in Keys : count[key].calls = count[key].due
    /\ last.op = "emit" =>
           \A key \in Keys :
               (key[1] = LastName /\ count[key].subs = 0)
                   => Hits(last.log, key[2], key[3]) = {}

\* on('a', f), three emit('a'), off('a', f), emit('a'): f has been invoked
\* three times, and the last emit call invoked nothing.
C13_Witness ==
    /\ last.op = "emit"
    /\ LastName = "a"
    /\ last.log = <<>>
    /\ count[<<"a", "f", UNDEFINED>>] = [subs |-> 0, due |-> 3, calls |-> 3]
    /\ count[<<"b", "g", UNDEFINED>>].subs = 1

\* C16: `value instanceof Eventful` is true for every instance of a class
\* that Eventful(Base) returns and of every subclass of it, for Base Object
\* and Array; it is false for falsy values, for an object that only has
\* methods named on, off and emit, and for an instance of a class that only
\* declares such methods.
C16_InstanceOfFollowsMarker ==
    /\ (checked.what = "instance" /\ klass.mixin) => checked.result
    /\ (checked.what = "instance" /\ ~klass.mixin) => ~checked.result
    /\ checked.what \in {"falsy", "literal"} => ~checked.result

\* An instance of a class two levels below Eventful(Array) passes the check.
C16_Witness ==
    /\ checked.what = "instance"
    /\ klass = [base |-> "Array", mixin |-> TRUE, depth |-> 2, duck |-> FALSE]
    /\ checked.value = New(klass)
    /\ checked.result

\* C17: when emits is applied to a property of a class without Eventful in
\* its chain (also one that has methods named on, off and emit), the
\* decorator throws a TypeError and has not replaced the property; from then
\* on no write schedules an emission: the queue stays empty and no deferred
\* step ever calls emit.
C17_DecoratorRejectsPlainClass ==
    (~klass.mixin /\ prop.state # "declared") =>
        /\ prop.state = "TypeError"
        /\ ~prop.bridge
        /\ ~prop.initialValueIsSet
        /\ queue = <<>>
        /\ fired = NoFired
        /\ \A o \in Instances : field[o].slot = UNDEFINED

\* A class with methods on, off and emit but without Eventful: the decorator
\* threw, the instance was written twice and the task ended with an empty
\* queue.
C17_Witness ==
    /\ ~klass.mixin
    /\ klass.duck
    /\ prop.decl = "data"
    /\ prop.target = "prototype"
    /\ prop.state = "TypeError"
    /\ field["o1"].back = "v2"
    /\ ~sync
    /\ queue = <<>>
    /\ last.op = "on"

\* C18: when emits is applied to a property of a class that extends
\* Eventful(), the check of the class prototype succeeds: no TypeError is
\* thrown, and the accessor that emits is installed (unless the property is an
\* accessor without setter or is not writable).
C18_DecoratorAcceptsEventfulClass ==
    (klass.mixin /\ prop.target = "prototype" /\ prop.state # "declared") =>
        /\ prop.state # "TypeError"
        /\ prop.decl \notin {"getter", "readonly"} => prop.bridge

Stored(o) == IF prop.decl \in {"accessor", "setter"} THEN field[o].back ELSE field[o].slot

\* C20: the payload of the event that a write to a decorated property emits
\* is the value of the property: after one write o.foo = v, the listener
\* subscribed to the event receives v.
C20_PayloadIsValue ==
    (last.op = "emit" /\ fired[last.self].wrote = 1) =>
        \A k \in 1..Len(last.log) : last.log[k].data = Stored(last.self)

\* C21: the emission that a write to the decorated property causes is never
\* synchronous with the write: the step that writes invokes no listener and
\* makes no emit call, and a step that makes the emit call of a scheduled
\* emission is taken only when the synchronous code that wrote has run to
\* completion (no task and no listener is running) and the write is in the
\* past.
C21_EmissionNotSynchronous ==
    [][/\ (\E o \in Instances : fired'[o].wrote # fired[o].wrote) =>
            /\ stack' = stack
            /\ last' = last
            /\ \A o \in Instances : fired'[o].ok = fired[o].ok /\ fired'[o].other = fired[o].other
            /\ Len(queue') = Len(queue) + 1
       /\ \A o \in Instances :
            fired'[o].ok + fired'[o].other # fired[o].ok + fired[o].other =>
                /\ ~sync
                /\ stack = <<>>
                /\ fired[o].wrote > fired[o].ok + fired[o].other
                /\ fired'[o].wrote = fired[o].wrote]_vars

\* After one write of o1.foo with a listener subscribed, the task has ended
\* and the deferred emit call has invoked the listener.
C21_Witness ==
    /\ fired["o1"] = [wrote |-> 1, ok |-> 1, other |-> 0]
    /\ ~sync
    /\ stack # <<>>
    /\ Len(stack[1].log) = 1
    /\ stack[1].args = <<EventName, PropName>>

\* The callback that this step took from the microtask queue and ran, if it
\* ran one: the owner whose count of callbacks run goes up.
Ran(o) == fired'[o].ok + fired'[o].other # fired[o].ok + fired[o].other

C23_EmissionNotCancelled ==
    \A n \in 1..MaxWrites :
        (fired["o1"].wrote >= n) ~> (fired["o1"].ok + fired["o1"].other >= n)

\* A listener was subscribed and removed again, o1.foo was written once, and
\* the deferred emit call has run and found no listener.
C23_Witness ==
    /\ fired["o1"] = [wrote |-> 1, ok |-> 1, other |-> 0]
    /\ queue = <<>>
    /\ nextId = 2
    /\ eventMap["o1"].null
    /\ last.op = "emit"
    /\ last.args = <<EventName, PropName>>
    /\ last.log = <<>>

\* The property is a plain one (a class field or a writable data property)
\* and o.foo goes through the accessor that emits.
PlainBridged(o) == Bridged(o) /\ prop.decl \in {"field", "data"}

\* C24: for a decorated plain field, once o.foo has been assigned a value, a
\* read of o.foo returns the value assigned last, in every state: with the
\* emission of that assignment still pending and after it has run; and every
\* read made since the last assignment did return it.
C24_ReadAfterWrite ==
    \A o \in Instances :
        (PlainBridged(o) /\ field[o].set # "none") =>
            /\ GetValue(o) = field[o].set
            /\ field[o].got # "none" => field[o].got = field[o].set

\* o1.foo = "v2" was read back as "v2" in the task that assigned it: the one
\* emission is pending, no emit call has been made.
C24_Witness ==
    /\ PlainBridged("o1")
    /\ field["o1"].set = "v2"
    /\ field["o1"].got = "v2"
    /\ sync
    /\ Len(queue) = 1
    /\ queue[1].self = "o1"
    /\ fired["o1"] = [wrote |-> 1, ok |-> 0, other |-> 0]

\* What a read of o.foo should return by the description of the decorated
\* field: the declared initial value while o was never written, and then the
\* value written to o last.
Expected(o) == IF field[o].set = "none" THEN InitialValue ELSE field[o].set

\* C25: for a decorated plain writable field, on each instance a read returns
\* the declared initial value while that instance has not been written, and
\* the value written to it last afterwards, whatever reads and writes were
\* made on the other instance of the class.
C25_InitialValuePerInstance ==
    \A o \in Instances :
        PlainBridged(o) =>
            /\ GetValue(o) = Expected(o)
            /\ field[o].got # "none" => field[o].got = Expected(o)

\* The emissions of o that are scheduled and have not run.
Pending(o) == Cardinality({k \in 1..Len(queue) : queue[k].self = o})

\* C26: for a decorated accessor with a setter, the assignments that the
\* original setter accepted are exactly those that scheduled an emission (an
\* assignment whose original setter throws schedules none, and no read
\* schedules one); the original setter received the value assigned, a read
\* returns what the original getter returns, and the decorator keeps no slot
\* and no flag of its own for the property.
C26_AccessorSetterFirst ==
    \A o \in Instances :
        (Bridged(o) /\ prop.decl \in {"accessor", "setter"}) =>
            /\ fired[o].wrote = fired[o].ok + fired[o].other + Pending(o)
            /\ field[o].set # "none" => field[o].back = field[o].set
            /\ field[o].slot = UNDEFINED
            /\ ~prop.initialValueIsSet
            /\ (prop.decl = "accessor" /\ field[o].got # "none") => field[o].got = field[o].back

\* An accessor with getter and setter: one assignment of o1.foo was refused
\* by the original setter, one was accepted and its emission has run, and a
\* read after it returned the value.
C26_Witness ==
    /\ Bridged("o1")
    /\ prop.decl = "accessor"
    /\ field["o1"].threw = 1
    /\ fired["o1"] = [wrote |-> 1, ok |-> 1, other |-> 0]
    /\ queue = <<>>
    /\ field["o1"].back = "v1"
    /\ field["o1"].got = "v1"

\* C27: when emits is applied, in a class that extends Eventful(), to an
\* accessor without setter or to a data property that is not writable, the
\* decoration is a no-op: it does not throw, the property stays as it was
\* declared (no accessor that emits, no slot, no flag), and no read or write
\* of it schedules an emission.
C27_UnsupportedIsNoOp ==
    (klass.mixin /\ prop.decl \in {"getter", "readonly"} /\ prop.state # "declared") =>
        /\ prop.state = "warned"
        /\ ~prop.bridge
        /\ ~prop.initialValueIsSet
        /\ queue = <<>>
        /\ fired = NoFired
        /\ \A o \in Instances : field[o].slot = UNDEFINED /\ field[o].back = UNDEFINED

\* This step is an assignment to the decorated property of o.
Wrote(o) == fired'[o].wrote = fired[o].wrote + 1

\* The instance on which this step called emit, if it called it: the call is
\* in progress on the stack or has returned and is the last one recorded.
EmitOn(o) ==
    IF stack' # <<>> THEN stack'[1].self = o /\ stack'[1].args = <<EventName, PropName>>
    ELSE last'.op = "emit" /\ last'.self = o /\ last'.args = <<EventName, PropName>>

\* C28: the slot and the emission belong to the instance written: an
\* assignment to the decorated field of an instance a changes neither what a
\* read of the same field of another instance b returns, nor what b stores,
\* nor the emissions pending or made for b; and the deferred emission of an
\* assignment to a calls emit on a, not on b.
C28_SlotAndEmissionPerInstance ==
    [][\A a \in Instances :
          /\ (PlainBridged(a) /\ Wrote(a)) =>
                \A b \in Instances \ {a} :
                    /\ GetValue(b)' = GetValue(b)
                    /\ field'[b] = field[b]
                    /\ fired'[b] = fired[b]
                    /\ Pending(b)' = Pending(b)
          /\ (PlainBridged(a) /\ Ran(a)) =>
                /\ fired[a].wrote > fired[a].ok + fired[a].other
                /\ EmitOn(a)
                /\ \A b \in Instances \ {a} : fired'[b] = fired[b] /\ field'[b] = field[b]]_vars

\* The ids of the first n tuples of a sequence, in order.
IdsInOrder(seq, n) == [k \in 1..n |-> seq[k].id]

\* C29: an emit call dispatches over exactly the entries subscribed when it
\* began, whatever on and off calls the listeners make: while it runs it has
\* invoked the first of them in order, and when it has returned it has
\* invoked each of them exactly once, in order, without fault (also those
\* that an earlier listener removed before their turn, and none that a
\* listener added).
C29_DispatchFixedAtStart ==
    /\ \A k \in 1..Len(stack) :
           /\ Len(stack[k].log) <= Len(stack[k].start)
           /\ IdsInOrder(stack[k].log, Len(stack[k].log))
                  = IdsInOrder(stack[k].start, Len(stack[k].log))
    /\ last.op = "emit" =>
           /\ last.err = "none"
           /\ IdsInOrder(last.log, Len(last.log)) = IdsInOrder(last.start, Len(last.start))

\* No listener called on or off for the event of the emit call f (or of the
\* recorded call l) while it was in progress.
QuietFrame(f) == f.added = {} /\ ~f.selfOff /\ ~f.otherOff

\* C30: emit is reentrant.  In every step: the emit calls below the one that
\* is running make no progress (the inner emit runs before the listener that
\* called it returns); an emit call that begins invokes the first entry
\* subscribed at its own start; an emit call that ends, at whatever depth,
\* has invoked each entry subscribed at its own start exactly once, in
\* order, and only then does its caller go on; and the outermost call, once
\* it has returned, has invoked each of its entries exactly once although
\* its listeners called emit in between.  (For emit calls during which no
\* listener called on or off for their event.)
C30_EmitReentrant ==
    [][/\ \A k \in 1..(Len(stack) - 1) :
            /\ k <= Len(stack')
            /\ stack'[k].i = stack[k].i
            /\ stack'[k].log = stack[k].log
       /\ Len(stack') > Len(stack) =>
            /\ Len(stack') = Len(stack) + 1
            /\ LET g == stack'[Len(stack')]
               IN /\ g.start # <<>>
                  /\ IdsInOrder(g.log, Len(g.log)) = IdsInOrder(g.start, 1)
       /\ Len(stack') < Len(stack) =>
            /\ Len(stack') = Len(stack) - 1
            /\ LET f == stack[Len(stack)]
               IN QuietFrame(f) =>
                      /\ LoopNext(f).kind = "return"
                      /\ IdsInOrder(f.log, Len(f.log)) = IdsInOrder(f.start, Len(f.start))
       /\ (last'.op = "emit" /\ QuietFrame(last')) =>
            /\ last'.err = "none"
            /\ IdsInOrder(last'.log, Len(last'.log))
                   = IdsInOrder(last'.start, Len(last'.start))]_vars

\* emit('a') invoked its first listener of two, which called emit('a')
\* again: the inner call has invoked both listeners and is about to return,
\* the outer call still has its second listener to invoke.
C30_Witness ==
    /\ Len(stack) = 2
    /\ stack[1].name = "a"
    /\ stack[2].name = "a"
    /\ Len(stack[1].start) = 2
    /\ Len(stack[1].log) = 1
    /\ Len(stack[2].start) = 2
    /\ Len(stack[2].log) = 2
    /\ QuietFrame(stack[1])
    /\ QuietFrame(stack[2])

\* C31: an emit call whose listeners return and do not call emit terminates,
\* after at most as many listener invocations as there were entries under
\* the name when it began, also when the listeners subscribe entries to the
\* name (or themselves again) during the pass.
C31_EmitTerminates ==
    /\ [](\A k \in 1..Len(stack) : Len(stack[k].log) <= Len(stack[k].start))
    /\ [](last.op = "emit" => Len(last.log) <= Len(last.start))
    /\ (stack # <<>>) ~> (stack = <<>>)

\* emit('a') with one entry subscribed has returned after one invocation,
\* although the listener subscribed two more entries to 'a' during the pass.
C31_Witness ==
    /\ last.op = "emit"
    /\ last.err = "none"
    /\ Len(last.start) = 1
    /\ Len(last.log) = 1
    /\ Cardinality(last.added) = 2
    /\ stack = <<>>

\* The (callback, context) pairs of a sequence of entries, in order.
PairsIn(seq) == [k \in 1..Len(seq) |-> <<seq[k].cb, seq[k].ctx>>]

\* A registry view without the identities of its entries: whether the map is
\* absent, and the ordered pairs under every name.
PairsOf(view) ==
    [null |-> view.null, subs |-> [n \in DOMAIN view.subs |-> PairsIn(view.subs[n])]]

\* This step is a call off(name, cb, ctx) by top-level code that follows
\* directly on a successful call on(name, cb, ctx) on the same instance.
OffAfterOn ==
    /\ stack = <<>>
    /\ last.op = "on"
    /\ last.err = "none"
    /\ last'.op = "off"
    /\ last'.self = last.self
    /\ \A k \in 1..3 : Arg(last'.args, k) = Arg(last.args, k)

\* C32 as stated: on(name, cb, ctx) followed by off(name, cb, ctx) gives back
\* the registry state from before the on: the same ordered pairs under every
\* name and the same absence of the map, also when an identical pair was
\* subscribed before.
C32_OnOffRoundTrip ==
    [][OffAfterOn => PairsOf(Registry'[last.self]) = PairsOf(last.pre[last.self])]_vars

\* C32 amended: after on(name, cb, ctx) and off(name, cb, ctx) the other names
\* and the absence of the map are as before the on, and under name: the same
\* ordered pairs as before when the pair was not subscribed there; otherwise
\* the oldest entry of the pair is the one that went, so the pairs are those
\* from before without the first (cb, ctx) and with (cb, ctx) at the end (the
\* same pairs as many times each, possibly in another order).
C32_OnOffRoundTripAmended ==
    [][OffAfterOn =>
          LET o == last.self
              name == Arg(last.args, 1)
              pair == <<Arg(last.args, 2), Arg(last.args, 3)>>
              before == PairsIn(SubsOf(last.pre[o], name))
              after == PairsIn(SubsOf(Registry'[o], name))
              hits == {k \in 1..Len(before) : before[k] = pair}
          IN /\ Registry'[o].null = last.pre[o].null
             /\ \A n \in Names \ {name} :
                    PairsIn(SubsOf(Registry'[o], n)) = PairsIn(SubsOf(last.pre[o], n))
             /\ IF hits = {} THEN after = before
                ELSE \E k \in hits :
                        /\ \A j \in hits : k <= j
                        /\ after = Append(Without(before, k), pair)]_vars

\* Entries f, g were subscribed under a name, on subscribed f again and off
\* took f back: the entries under the name are now g, f.
C32_Witness ==
    /\ last.op = "off"
    /\ nextId = 4
    /\ PairsIn(Before) = <<<<LastCallback, LastContext>>, <<"g", UNDEFINED>>,
                           <<LastCallback, LastContext>>>>
    /\ Before[3].id = 3
    /\ LastCallback = "f"
    /\ PairsIn(After) = <<<<"g", UNDEFINED>>, <<LastCallback, LastContext>>>>

\* C33: a deferred emission dispatches to the subscriptions that exist when
\* it runs.  The step that runs it finds the entries that the event has at
\* that moment and invokes the first of them (or returns at once when there
\* are none), and when the emit call has returned it has invoked exactly
\* these entries, once each, in order: also those subscribed after the write,
\* and none of those unsubscribed after the write.
C33_DispatchAtRunTime ==
    [][/\ \A o \in Instances :
            Ran(o) =>
                LET now == SubsOf(Registry[o], EventName)
                IN IF now = <<>>
                   THEN stack' = <<>> /\ last'.op = "emit" /\ last'.log = <<>>
                   ELSE /\ Len(stack') = 1
                        /\ stack'[1].start = now
                        /\ IdsInOrder(stack'[1].log, Len(stack'[1].log)) = IdsInOrder(now, 1)
       /\ (last'.op = "emit" /\ last' # last) =>
            /\ last'.err = "none"
            /\ last'.start = SubsOf(Registry[last'.self], EventName)
            /\ IdsInOrder(last'.log, Len(last'.log))
                   = IdsInOrder(last'.start, Len(last'.start))]_vars

\* After the only write of o1.foo the callers subscribed f and g and
\* unsubscribed f again; the emission of that write has run and invoked g
\* alone.
C33_Witness ==
    /\ fired["o1"] = [wrote |-> 1, ok |-> 1, other |-> 0]
    /\ nextId = 3
    /\ stack = <<>>
    /\ last.op = "emit"
    /\ Len(last.log) = 1
    /\ last.log[1].cb = "g"
    /\ last.log[1].data = PropName

Failed == last'.op = "emit" /\ last'.err = "Thrown" /\ last' # last

\* C35: deferred emissions are independent.  When a listener throws during
\* one of them, that emission ends there (the listeners after the thrower are
\* not invoked) and nothing else changes: the emissions queued after it stay
\* pending in their order, and the registry is as it was.  Each of them then
\* runs, and the step that runs it invokes the first listener subscribed.
C35_DeferredIndependent ==
    /\ [][/\ Failed =>
                /\ stack' = <<>>
                /\ Len(last'.log) = last'.thrower
                /\ queue' = queue
                /\ fired' = fired
                /\ Registry' = Registry
           /\ \A o \in Instances :
                (Ran(o) /\ SubsOf(Registry[o], EventName) # <<>>) =>
                    /\ Len(stack') = 1
                    /\ Len(stack'[1].log) = 1
                    /\ stack'[1].log[1].id = SubsOf(Registry[o], EventName)[1].id]_vars
    /\ \A n \in 1..MaxWrites :
            (last.op = "emit" /\ last.err = "Thrown" /\ fired["o1"].wrote >= n)
                ~> (fired["o1"].ok >= n)

\* f and g are subscribed and o1.foo was assigned twice; f threw during the
\* first emission, g was not invoked, and the second emission is pending.
C35_Witness ==
    /\ fired["o1"] = [wrote |-> 2, ok |-> 1, other |-> 0]
    /\ stack = <<>>
    /\ last.op = "emit"
    /\ last.err = "Thrown"
    /\ Len(last.start) = 2
    /\ Len(last.log) = 1
    /\ last.thrower = 1
    /\ Len(queue) = 1
    /\ queue[1].self = "o1"

\* The step belongs to emit itself: a call begins, invokes its next listener,
\* or ends (by return or by an exception).
EmitStep ==
    \/ Len(stack') # Len(stack)
    \/ stack # <<>> /\ stack'[Len(stack)].i # stack[Len(stack)].i
    \/ stack = <<>> /\ last'.op = "emit" /\ last' # last

\* C36: emit by itself never changes the registry.  No step of emit (its
\* start, an invocation, its return, its end by an exception of a listener)
\* changes the event map or any collection of entries; a call whose
\* listeners called neither on nor off for its event, aborted or not, leaves
\* the entries of the event as they were at its start; and a call that begins
\* at top level, also after an aborted one, dispatches over all the entries
\* present, from the first one.
C36_EmitKeepsRegistry ==
    [][/\ EmitStep => eventMap' = eventMap /\ heap' = heap /\ nextId' = nextId
       /\ (stack # <<>> /\ stack' = <<>> /\ QuietFrame(last')) =>
            /\ last'.op = "emit"
            /\ SubsOf(Registry'[last'.self], last'.args[1]) = last'.start
       /\ (stack = <<>> /\ stack' # <<>>) =>
            /\ stack'[1].start = SubsOf(Registry'[stack'[1].self], stack'[1].name)
            /\ stack'[1].start # <<>>
            /\ stack'[1].i = 2
            /\ IdsInOrder(stack'[1].log, Len(stack'[1].log)) = IdsInOrder(stack'[1].start, 1)]_vars

\* Two listeners are subscribed under "a"; the first threw, the second was
\* not invoked, no listener called on or off, and both entries are still
\* subscribed in their order.
C36_Witness ==
    /\ stack = <<>>
    /\ last.op = "emit"
    /\ last.err = "Thrown"
    /\ last.thrower = 1
    /\ Len(last.start) = 2
    /\ QuietFrame(last)
    /\ SubsOf(Registry[last.self], "a") = last.start

\* The emit call f as each build holds it: the Set-based one iterates a copy
\* of the entries made at its start, the array-based one the live array up
\* to the length read at its start.
AsSet(f) == [f EXCEPT !.snap = f.start, !.len = 0]

AsArray(f) == [f EXCEPT !.snap = <<>>, !.len = Len(f.start)]

\* C37: the array-based registry and the Set-based registry are equivalent
\* for listeners that do not mutate the registry.  From every state reached
\* by either build, each call does the same in both: on appends the same
\* entry to the collection, off finds the same entry (or none) and leaves
\* the same ordered entries, and an emit call whose listeners have called
\* neither on nor off for its event has the same next step in both (the
\* same listener to invoke, or the return; never a fault); a call that has
\* returned invoked each entry subscribed at its start, once, in order.
C37_BuildsEquivalent ==
    /\ \A r \in 1..Len(heap) :
            \A callback \in Cbs, context \in Ctxs :
                LET callbacks == heap[r]
                    tuple == [cb |-> callback, ctx |-> context, id |-> nextId]
                    index == FindIndex(callbacks, callback, context)
                    found == SetFind(callbacks, callback, context)
                IN /\ SetAdd(callbacks, tuple) = Push(callbacks, tuple)
                   /\ (index = 0) <=> (found = 0)
                   /\ index # 0 =>
                        /\ callbacks[index].id = found
                        /\ SetDelete(callbacks, found) = Splice(callbacks, index)
    /\ \A k \in 1..Len(stack) :
            LET f == stack[k]
            IN /\ f = IF impl = "Set" THEN AsSet(f) ELSE AsArray(f)
               /\ QuietFrame(f) =>
                    /\ LoopNextSet(AsSet(f)) = LoopNextArray(AsArray(f))
                    /\ LoopNext(f) = LoopNextSet(AsSet(f))
                    /\ IdsInOrder(f.log, Len(f.log)) = IdsInOrder(f.start, f.i - 1)
    /\ (last.op = "emit" /\ QuietFrame(last) /\ last.err # "Thrown") =>
            /\ last.err = "none"
            /\ IdsInOrder(last.log, Len(last.log)) = IdsInOrder(last.start, Len(last.start))

\* The array-based build is dispatching over three entries; two listeners
\* have been invoked and have called neither on nor off, the third is next.
C37_Witness ==
    /\ impl = "Array"
    /\ Len(stack) = 1
    /\ QuietFrame(stack[1])
    /\ Len(stack[1].start) = 3
    /\ Len(stack[1].log) = 2
    /\ LoopNextSet(AsSet(stack[1])).kind = "invoke"

====
